---- MODULE Spec2Model ----
(***************************************************************************)
(* Verification model of the swipe-typing core of xbox-controller-mapper   *)
(* (src/SwipeModel): beam-search decoding (SwipeTransformer.predict), the  *)
(* token codec (SwipeDataset.__getitem__ target / tokens_to_word) and the  *)
(* feature encoder (SwipeDataset.__getitem__ features, load_futo_dataset). *)
(*                                                                         *)
(* Log-probabilities are modelled as non-positive integers (a fixed-point  *)
(* scale of the floats of the code); NaN is a separate value that compares *)
(* false with everything, as IEEE-754 NaN does.                            *)
(***************************************************************************)
EXTENDS Integers, Sequences, FiniteSets, TLC

VARIABLES
    pc,          \* position of predict: "call", "item", "beam", "rank", "done"
    batch_size,  \* features.size(0)
    stroke_len,  \* stroke_len tensor: one valid length per batch item
    beam_width,  \* argument beam_width
    max_len,     \* argument max_len
    mem_nan,     \* per item: the encoder memory of that item is NaN
    b,           \* index of the batch item being decoded (1-based)
    step,        \* loop variable of "for step in range(max_len)"
    bi,          \* index in beams of the beam the inner loop is at (1-based)
    beams,       \* active beams: sequence of [tokens, score]
    finished,    \* finished beams: sequence of [tokens, score]
    candidates,  \* continuations pooled in the current step
    tgt,         \* the token sequence last handed to decode in this step
    log_probs,   \* the log-softmax vector decode returned for tgt
    all_results, \* the list predict returns: one candidate list per item
    traces,      \* per item, which gesture its features encode (<<>>: the
                 \* decoder is left open, every decode call may return any
                 \* vector)
    memo,        \* the decoder as far as it was evaluated: for a gesture and
                 \* a token sequence, the log-softmax vector of the last
                 \* position
    solo,        \* 0 during the call on the batch; b during the later call
                 \* on item b alone
    batch_results, \* what the call on the batch returned
    d_pc,        \* position of the dataset pipeline: "load", "ready",
                 \* "returned", "raised", "decoded"
    rows_left,   \* rows of the corpus load_futo_dataset has not read yet
    samples,     \* the sample list: dicts with "points" and "word"
    skipped,     \* load_futo_dataset: rows filtered out
    augment,     \* SwipeDataset.augment
    idx,         \* the index __getitem__ was called with (1-based, 0: none)
    item,        \* the dict __getitem__ returned
    d_error,     \* the exception __getitem__ raised, or "none"
    decoded,     \* tokens_to_word(item.target)
    indices,     \* the local "indices" of __getitem__ (1-based), <<>> if unset
    g_pc,        \* position of the geometry calls: "point", "near", "done",
                 \* "raised"
    g_frame,     \* the layout the point is given in: "target" or "mobile"
    g_x,         \* argument x (mx)
    g_y,         \* argument y (my)
    g_key,       \* the letter nearest_key returned
    g_prox,      \* the vector key_proximity returned
    g_out,       \* the point remap_point returned
    f_build,     \* what the torch build does where torch leaves it open
    f_input_dim, \* SwipeTransformer.input_dim
    f_n_layers,  \* n_layers
    f_feat_dim,  \* features.size(2)
    f_seq_len,   \* features.size(1)
    f_stroke_len, \* stroke_len of the item
    f_target,    \* the two target sequences: f_target[1] and f_target[2]
    f_out,       \* the result of SwipeTransformer.forward on each target
    f_export,    \* the result of SwipeModelForExport.forward on f_target[1]
    w_store,     \* request_store._requests of the webhook test server
    w_count,     \* how many requests have arrived
    w_sent,      \* the requests that arrived since the store was last cleared
    w_request,   \* the request handled last
    w_response,  \* what the client got for it
    w_events,    \* what the handler of the last request did, in order
    t_requests,  \* self._requests of a RequestStore shared by threads
    t_lock,      \* self._lock: 0 when free, else the thread that holds it
    t_pc,        \* per thread, where it is in the method it called
    t_arg,       \* per thread, the argument of the call
    t_local,     \* per thread, the value of self._requests[-100:] in add
    t_ret,       \* per thread, what its last get_all or find_by_path returned
    t_calls,     \* how many calls were made
    t_added      \* the requests appended since the last clear, in order

predictVars == <<pc, batch_size, stroke_len, beam_width, max_len, mem_nan, b,
                 step, bi, beams, finished, candidates, tgt, log_probs,
                 all_results, traces, memo>>

compareVars == <<solo, batch_results>>

datasetVars == <<d_pc, rows_left, samples, skipped, augment, idx, item,
                 d_error, decoded, indices>>

layoutVars == <<g_pc, g_frame, g_x, g_y, g_key, g_prox, g_out>>

forwardVars == <<f_build, f_input_dim, f_n_layers, f_feat_dim, f_seq_len,
                 f_stroke_len, f_target, f_out, f_export>>

webVars == <<w_store, w_count, w_sent, w_request, w_response, w_events>>

threadVars == <<t_requests, t_lock, t_pc, t_arg, t_local, t_ret, t_calls,
                t_added>>

vars == <<predictVars, compareVars, datasetVars, layoutVars, forwardVars,
          webVars, threadVars>>

\* what the actions of one component leave alone
notPredictVars == <<compareVars, datasetVars, layoutVars, forwardVars, webVars,
    threadVars>>
notDatasetVars == <<predictVars, compareVars, layoutVars, forwardVars, webVars,
    threadVars>>
notLayoutVars == <<predictVars, compareVars, datasetVars, forwardVars, webVars,
    threadVars>>
notForwardVars == <<predictVars, compareVars, datasetVars, layoutVars, webVars,
    threadVars>>
notWebVars ==
    <<predictVars, compareVars, datasetVars, layoutVars, forwardVars,
      threadVars>>
notThreadVars ==
    <<predictVars, compareVars, datasetVars, layoutVars, forwardVars, webVars>>

-----------------------------------------------------------------------------
(* Program constants (dataset.py)                                          *)

PAD_TOKEN == 0
SOS_TOKEN == 27
EOS_TOKEN == 28
VOCAB_SIZE == 29
MAX_STROKE_LEN == 80
MAX_WORD_LEN == 20

(* Bounds of the model                                                     *)

MaxBatch == 2        \* batch items per predict call
MaxBeam == 2         \* beam_width ranges over 1..MaxBeam
MaxSteps == 3        \* max_len ranges over 0..MaxSteps
MaxDecodeWork == 6   \* batch_size * beam_width * max_len is at most this
MaxCompareWork == 8  \* the same, when the batch is compared with its items
MaxRequests == 2     \* requests sent to the webhook server after the earlier ones
MaxThreads == 2      \* threads that call the methods of one RequestStore
MaxCalls == 3        \* calls the threads make in all

\* The tokens the decoder gives a non-negligible probability in the model:
\* PAD, the letter A and EOS.
ModelVocab == {PAD_TOKEN, 1, EOS_TOKEN}

\* The log-probabilities a token can get in the model.
LogProbValues == {-1, -2}

-----------------------------------------------------------------------------
(* keyboard_layout.py: the target key layout                               *)

KEY_WIDTH == 68
KEY_HEIGHT == 60
KEY_SPACING == 8

ROWS ==
    << [offset |-> 95 + KEY_SPACING,
        keys |-> <<"Q", "W", "E", "R", "T", "Y", "U", "I", "O", "P">>,
        y_index |-> 0],
       [offset |-> 112 + KEY_SPACING,
        keys |-> <<"A", "S", "D", "F", "G", "H", "J", "K", "L">>,
        y_index |-> 1],
       [offset |-> 140 + KEY_SPACING,
        keys |-> <<"Z", "X", "C", "V", "B", "N", "M">>,
        y_index |-> 2] >>

ALPHABET ==
    <<"A", "B", "C", "D", "E", "F", "G", "H", "I", "J", "K", "L", "M",
      "N", "O", "P", "Q", "R", "S", "T", "U", "V", "W", "X", "Y", "Z">>

Range(s) == {s[i] : i \in 1..Len(s)}

IndexOf(s, e) == CHOOSE i \in 1..Len(s) : s[i] = e

\* LETTER_TO_IDX[ch]: the 0-based position of ch in ALPHABET
LETTER_TO_IDX(ch) == IndexOf(ALPHABET, ch) - 1

\* ch in LETTER_TO_IDX
IsLetterKey(ch) == ch \in Range(ALPHABET)

KeyRow(ch) == CHOOSE r \in 1..Len(ROWS) : ch \in Range(ROWS[r].keys)

\* _compute_layout: the pixel centre of every letter key (KEY_WIDTH / 2.0 and
\* KEY_HEIGHT / 2.0 are whole numbers)
LAYOUT_PX ==
    [ch \in Range(ALPHABET) |->
        LET row == ROWS[KeyRow(ch)]
            i == IndexOf(row.keys, ch) - 1
        IN  <<row.offset + i * (KEY_WIDTH + KEY_SPACING) + KEY_WIDTH \div 2,
              row.y_index * (KEY_HEIGHT + KEY_SPACING) + KEY_HEIGHT \div 2>>]

SetMin(S) == CHOOSE x \in S : \A y \in S : x <= y
SetMax(S) == CHOOSE x \in S : \A y \in S : x >= y

x_min == SetMin({LAYOUT_PX[ch][1] : ch \in Range(ALPHABET)}) - KEY_WIDTH \div 2
x_max == SetMax({LAYOUT_PX[ch][1] : ch \in Range(ALPHABET)}) + KEY_WIDTH \div 2
y_min == SetMin({LAYOUT_PX[ch][2] : ch \in Range(ALPHABET)}) - KEY_HEIGHT \div 2
y_max == SetMax({LAYOUT_PX[ch][2] : ch \in Range(ALPHABET)}) + KEY_HEIGHT \div 2
LAYOUT_WIDTH == x_max - x_min
LAYOUT_HEIGHT == y_max - y_min

RECURSIVE GCD(_, _)
GCD(m, n) == IF n = 0 THEN m ELSE GCD(n, m % n)

\* Normalized coordinates are fixed-point numbers: a coordinate c of the
\* code is the integer c * CoordUnit.  CoordUnit is the least unit in which
\* every normalized key centre is a whole number.
CoordUnit == (LAYOUT_WIDTH * LAYOUT_HEIGHT) \div GCD(LAYOUT_WIDTH, LAYOUT_HEIGHT)

\* _normalize / LAYOUT
LAYOUT ==
    [ch \in Range(ALPHABET) |->
        <<((LAYOUT_PX[ch][1] - x_min) * CoordUnit) \div LAYOUT_WIDTH,
          ((LAYOUT_PX[ch][2] - y_min) * CoordUnit) \div LAYOUT_HEIGHT>>]

\* CENTERS: the centres in ALPHABET order
CENTERS == [i \in 1..Len(ALPHABET) |-> LAYOUT[ALPHABET[i]]]

\* (x - cx) ** 2 + (y - cy) ** 2
Dist2(x, y, c) == (x - c[1]) * (x - c[1]) + (y - c[2]) * (y - c[2])

\* math.sqrt on fixed-point numbers, rounded down
RECURSIVE SqrtIter(_, _)
SqrtIter(n, x) ==
    LET nx == (x + n \div x) \div 2
    IN  IF nx >= x THEN x ELSE SqrtIter(n, nx)

ISqrt(n) == IF n = 0 THEN 0 ELSE SqrtIter(n, n)

\* 1.0 as a fixed-point proximity
ProxOne == 10000

\* key_proximity: 1.0 / (1.0 + d * 10.0) for every centre, in A-Z order
key_proximity(x, y) ==
    [i \in 1..Len(CENTERS) |->
        (ProxOne * CoordUnit) \div (CoordUnit + ISqrt(Dist2(x, y, CENTERS[i])) * 10)]

-----------------------------------------------------------------------------
(* dataset.py: the mobile layout and the remap                             *)

\* Mobile coordinates are fixed-point numbers in units of 1/MobileUnit, the
\* least unit in which every mobile key centre is a whole number.
MobileUnit == 7000

MOBILE_ROWS ==
    << [keys |-> ROWS[1].keys, y |-> (167 * MobileUnit) \div 1000],
       [keys |-> ROWS[2].keys, y |-> (500 * MobileUnit) \div 1000],
       [keys |-> ROWS[3].keys, y |-> (833 * MobileUnit) \div 1000] >>

\* margin = 0.05; span = 1.0 - 2 * margin; x = margin + (i + 0.5) * span / n
MOBILE_LAYOUT ==
    [ch \in Range(ALPHABET) |->
        LET row == MOBILE_ROWS[KeyRow(ch)]
            n == Len(row.keys)
            i == IndexOf(row.keys, ch) - 1
            margin == (5 * MobileUnit) \div 100
            span == MobileUnit - 2 * margin
        IN  <<margin + ((2 * i + 1) * span) \div (2 * n), row.y>>]

\* the order in which the layout dictionaries are iterated: row by row
KeyOrder == ROWS[1].keys \o ROWS[2].keys \o ROWS[3].keys

\* mutant of NearestIn: best_d is never lowered, so that every key scanned
\* replaces the best one and the last key of the scan is returned
NearestInLastScanned(layout, x, y) == KeyOrder[Len(KeyOrder)]

\* the scan "if d < best_d" over a layout: the first key of least distance
NearestIn(layout, x, y) ==
    LET d(k) == Dist2(x, y, layout[KeyOrder[k]])
        best == CHOOSE k \in 1..Len(KeyOrder) :
                   /\ \A j \in 1..Len(KeyOrder) : d(k) <= d(j)
                   /\ \A j \in 1..(k - 1) : d(j) > d(k)
    IN  KeyOrder[best]

nearest_key(x, y) == NearestIn(LAYOUT, x, y)

nearest_mobile_key(x, y) == NearestIn(MOBILE_LAYOUT, x, y)

remap_point(mx, my) == LAYOUT[nearest_mobile_key(mx, my)]

-----------------------------------------------------------------------------
(* Floating-point scores                                                   *)

\* NaN: what softmax over a fully masked attention row yields.  Every real
\* score of the model is <= 0, so 1 is free to stand for it.
NaN == 1

IsNaN(x) == x = NaN

\* score + val.item()
FAdd(x, y) == IF IsNaN(x) \/ IsNaN(y) THEN NaN ELSE x + y

\* A sort key num/den with den >= 1 (den = 1: the raw score; den = the beam
\* length: the length-normalized score).
KeyLess(k1, k2) ==
    /\ ~IsNaN(k1[1])
    /\ ~IsNaN(k2[1])
    /\ k1[1] * k2[2] < k2[1] * k1[2]

Max(x, y) == IF x >= y THEN x ELSE y

Min(x, y) == IF x <= y THEN x ELSE y

\* list.sort(key=..., reverse=True) on a list of [item, key]: a stable
\* descending sort; comparisons with NaN are all false, which leaves an
\* all-NaN list in its order.
RECURSIVE InsertDesc(_, _)
InsertDesc(sorted, e) ==
    IF sorted = <<>> \/ ~KeyLess(sorted[Len(sorted)].key, e.key)
    THEN Append(sorted, e)
    ELSE Append(InsertDesc(SubSeq(sorted, 1, Len(sorted) - 1), e),
                sorted[Len(sorted)])

RECURSIVE SortDesc(_)
SortDesc(s) ==
    IF s = <<>> THEN <<>>
    ELSE InsertDesc(SortDesc(SubSeq(s, 1, Len(s) - 1)), s[Len(s)])

Items(s) == [i \in 1..Len(s) |-> s[i].item]

\* x[1]: the cumulative score
ScoreKey(beam) == <<beam.score, 1>>

\* x[1] / max(len(x[0]), 1): the length-normalized score
NormKey(beam) == <<beam.score, Max(Len(beam.tokens), 1)>>

\* mutant of SortByScore: the pool is left in the order of its making
Unsorted(s) == s

\* candidates.sort(key=lambda x: x[1], reverse=True)
SortByScore(s) ==
    Items(SortDesc([i \in 1..Len(s) |-> [item |-> s[i], key |-> ScoreKey(s[i])]]))

\* finished.sort(key=lambda x: x[1] / max(len(x[0]), 1), reverse=True)
SortByNormScore(s) ==
    Items(SortDesc([i \in 1..Len(s) |-> [item |-> s[i], key |-> NormKey(s[i])]]))

\* s[:n]
Take(s, n) == SubSeq(s, 1, IF n < Len(s) THEN n ELSE Len(s))

Last(s) == s[Len(s)]

-----------------------------------------------------------------------------
(* The positional tables                                                   *)

\* PositionalEncoding(d_model, max_len=MAX_STROKE_LEN + 10)
EncPosLen == MAX_STROKE_LEN + 10

\* a table of MAX_WORD_LEN rows only
DecPosLenShort == MAX_WORD_LEN

\* PositionalEncoding(d_model, max_len=MAX_WORD_LEN + 10)
DecPosLen == MAX_WORD_LEN + 10

\* mutant of PosEncRaises: the table is as long as any sequence
PosEncNeverRaises(len, table_len) == FALSE

\* PositionalEncoding.forward: x + self.pe[:, :x.size(1)].  The slice has
\* min(len, table_len) rows; torch broadcasts two sizes only if they are
\* equal or one of them is 1, and raises RuntimeError otherwise.
PosEncRaises(len, table_len) ==
    LET rows == Min(len, table_len)
    IN  ~(rows = len \/ rows = 1 \/ len = 1)

-----------------------------------------------------------------------------
(* The decoder as an oracle                                                *)

\* positions >= stroke_len: TRUE marks a padding position
StrokeMask(len) == [t \in 1..MAX_STROKE_LEN |-> (t - 1) >= len]

AllMasked(len) == \A t \in 1..MAX_STROKE_LEN : StrokeMask(len)[t]

\* F.log_softmax(self.decode(tgt, mem, smask)[0, -1]): for a fixed trace and
\* fixed weights a function of tgt.  predict hands every token sequence to
\* decode at most once per item, so each call may return any vector.  With a
\* NaN memory every entry is NaN.
LogSoftmaxOutputs(nan) ==
    IF nan THEN {[t \in ModelVocab |-> NaN]}
    ELSE [ModelVocab -> LogProbValues]

\* The vectors of a decoder whose outputs have no two equal entries: each of
\* PAD, A and EOS is the most probable token of one of them.
RankedOutputs ==
    {[t \in ModelVocab |->
         IF t = order[1] THEN -1 ELSE IF t = order[2] THEN -2 ELSE -3] :
        order \in {<<EOS_TOKEN, 1, PAD_TOKEN>>, <<1, PAD_TOKEN, EOS_TOKEN>>,
                   <<PAD_TOKEN, EOS_TOKEN, 1>>}}

\* A gesture on which the decoder ranks the tokens the same way after every
\* token sequence: the letter A, then EOS, then PAD; a batch of one such
\* gesture.
SteadyTraces == <<0>>

SteadyOutput ==
    [t \in ModelVocab |-> IF t = 1 THEN -1 ELSE IF t = EOS_TOKEN THEN -2 ELSE -3]

\* the key under which the decoder output for a gesture and a token
\* sequence is remembered
MemoKey(gestures, it, tokens) == <<gestures[it], tokens>>

\* F.log_softmax(self.decode(tgt, mem, smask)[0, -1]) in eval mode is a
\* function of the weights, the features of the item and tgt: when the
\* gestures are known, a second call on the same gesture and tokens returns
\* what the first returned; with a NaN memory every entry is NaN
DecodeOutputs(gestures, seen, it, tokens, nan) ==
    IF gestures = <<>> \/ nan THEN LogSoftmaxOutputs(nan)
    ELSE IF gestures = SteadyTraces THEN {SteadyOutput}
    ELSE IF MemoKey(gestures, it, tokens) \in DOMAIN seen
         THEN {seen[MemoKey(gestures, it, tokens)]}
         ELSE RankedOutputs

Remember(gestures, seen, it, tokens, lp) ==
    IF gestures = <<>> \/ gestures = SteadyTraces THEN seen
    ELSE (MemoKey(gestures, it, tokens) :> lp) @@ seen

\* torch.topk(log_probs, k) on the VOCAB_SIZE entries of log_probs raises
\* RuntimeError when k is larger than their number
TopKRaises(k) == k > VOCAB_SIZE

\* torch.topk(log_probs, k): k distinct indices, values in non-increasing
\* order, nothing left out is larger than something taken.  The order among
\* equal values (and among NaN) is unspecified.
TopK(lp, k) ==
    {s \in [1..k -> ModelVocab] :
        /\ \A i, j \in 1..k : i # j => s[i] # s[j]
        /\ \A i \in 1..(k - 1) : ~KeyLess(<<lp[s[i]], 1>>, <<lp[s[i + 1]], 1>>)
        /\ \A t \in ModelVocab :
              (\A i \in 1..k : s[i] # t) =>
                 \A i \in 1..k : ~KeyLess(<<lp[s[i]], 1>>, <<lp[t], 1>>)}

\* mutant of Continuations: the score of the parent is left out
ContinuationsOfLast(beam, lp, top) ==
    [i \in 1..Len(top) |->
        [tokens |-> Append(beam.tokens, top[i]),
         score |-> lp[top[i]]]]

\* the continuations of one beam, in topk order
Continuations(beam, lp, top) ==
    [i \in 1..Len(top) |->
        [tokens |-> Append(beam.tokens, top[i]),
         score |-> FAdd(beam.score, lp[top[i]])]]

-----------------------------------------------------------------------------
(* predict                                                                 *)

NoTokens == <<>>
NoLogProbs == <<>>

InitPredict ==
    /\ pc = "call"
    /\ batch_size \in 1..MaxBatch
    /\ beam_width \in (1..MaxBeam) \cup {VOCAB_SIZE + 1}
    /\ max_len \in 0..MaxSteps
    /\ batch_size * Min(beam_width, MaxBeam) * max_len <= MaxDecodeWork
    /\ stroke_len \in [1..batch_size -> {0, MAX_STROKE_LEN}]
    /\ mem_nan = [i \in 1..batch_size |-> FALSE]
    /\ b = 0
    /\ step = 0
    /\ bi = 0
    /\ beams = <<>>
    /\ finished = <<>>
    /\ candidates = <<>>
    /\ tgt = NoTokens
    /\ log_probs = NoLogProbs
    /\ all_results = <<>>
    /\ traces = <<>>
    /\ memo = <<>>

\* beams = [([SOS_TOKEN], 0.0)]; finished = []
FirstBeams == <<[tokens |-> <<SOS_TOKEN>>, score |-> 0]>>

\* model.py 201-218: eval, stroke mask, encode, and the set-up of item 1.
\* Attention over a fully masked row gives NaN or zeros depending on the
\* torch build; both are possible outcomes.
Encode ==
    /\ pc = "call"
    /\ \E nan \in [1..batch_size -> BOOLEAN] :
          /\ \A i \in 1..batch_size : nan[i] => AllMasked(stroke_len[i])
          /\ mem_nan' = nan
    /\ b' = 1
    /\ beams' = FirstBeams
    /\ finished' = <<>>
    /\ step' = 0
    /\ bi' = 1
    /\ candidates' = <<>>
    /\ pc' = IF max_len > 0 THEN "beam" ELSE "rank"
    /\ UNCHANGED <<batch_size, stroke_len, beam_width, max_len, tgt,
                   log_probs, all_results, traces, memo>>
    /\ UNCHANGED notPredictVars

\* mutant of IsFinished: the first token is tested instead of the last
IsFinishedFirstToken(beam) == beam.tokens[1] = EOS_TOKEN

\* tokens[-1] == EOS_TOKEN
IsFinished(beam) == Last(beam.tokens) = EOS_TOKEN

\* model.py 222-225: a beam that ends in EOS moves to finished
RetireBeam ==
    /\ pc = "beam"
    /\ bi <= Len(beams)
    /\ IsFinished(beams[bi])
    /\ finished' = Append(finished, beams[bi])
    /\ bi' = bi + 1
    /\ tgt' = NoTokens
    /\ log_probs' = NoLogProbs
    /\ UNCHANGED <<pc, batch_size, stroke_len, beam_width, max_len, mem_nan,
                   b, step, beams, candidates, all_results, traces, memo>>
    /\ UNCHANGED notPredictVars

\* model.py 227-235: decode the beam, take the top beam_width tokens, pool
\* the continuations; decode raises when the tokens are more than the
\* positional table of the decoder holds, topk when beam_width is more than
\* the vocabulary holds, and the exception leaves predict
ExpandBeam ==
    /\ pc = "beam"
    /\ bi <= Len(beams)
    /\ ~IsFinished(beams[bi])
    /\ tgt' = beams[bi].tokens
    /\ IF PosEncRaises(Len(beams[bi].tokens), DecPosLen)
          \/ TopKRaises(beam_width)
       THEN /\ pc' = "raised"
            /\ UNCHANGED <<log_probs, memo, candidates, bi>>
       ELSE /\ \E lp \in DecodeOutputs(traces, memo, b, beams[bi].tokens,
                                        mem_nan[b]) :
                  /\ log_probs' = lp
                  /\ memo' = Remember(traces, memo, b, beams[bi].tokens, lp)
                  /\ \E top \in TopK(lp, beam_width) :
                        candidates' =
                            candidates \o Continuations(beams[bi], lp, top)
            /\ bi' = bi + 1
            /\ pc' = pc
    /\ UNCHANGED <<batch_size, stroke_len, beam_width, max_len, mem_nan,
                   b, step, beams, finished, all_results, traces>>
    /\ UNCHANGED notPredictVars

\* model.py 237-242 with the loop header 220: no candidates ends the loop,
\* otherwise the best beam_width candidates become the beams
EndStep ==
    /\ pc = "beam"
    /\ bi > Len(beams)
    /\ IF candidates = <<>>
       THEN /\ pc' = "rank"
            /\ UNCHANGED <<beams, step>>
       ELSE /\ beams' = Take(SortByScore(candidates), beam_width)
            /\ step' = step + 1
            /\ pc' = IF step + 1 < max_len THEN "beam" ELSE "rank"
    /\ candidates' = <<>>
    /\ bi' = 1
    /\ tgt' = NoTokens
    /\ log_probs' = NoLogProbs
    /\ UNCHANGED <<batch_size, stroke_len, beam_width, max_len, mem_nan, b,
                   finished, all_results, traces, memo>>
    /\ UNCHANGED notPredictVars

\* mutant of MergeAndSort: the merged list is sorted by the raw score
MergeAndSortRaw(fin, act) == SortByScore(fin \o act)

\* model.py 245-246: finished.extend(beams); finished.sort(normalized)
MergeAndSort(fin, act) == SortByNormScore(fin \o act)

\* model.py 244-247: merge, sort by normalized score, keep beam_width
FinalRanking(fin, act, k) == Take(MergeAndSort(fin, act), k)

\* mutant of FreshFinished: the list is created once, before the loop over
\* the items, and the next item goes on with the list of the previous one
StaleFinished(previous) == previous

\* model.py 218: finished = [] at the start of every item (previous: the
\* finished list of the item before)
FreshFinished(previous) == <<>>

\* model.py 244-249 and 212-218: rank the item, then start the next item or
\* return
FinishItem ==
    /\ pc = "rank"
    /\ all_results' = Append(all_results, FinalRanking(finished, beams, beam_width))
    /\ IF b < batch_size
       THEN /\ b' = b + 1
            /\ beams' = FirstBeams
            /\ finished' = FreshFinished(MergeAndSort(finished, beams))
            /\ step' = 0
            /\ pc' = IF max_len > 0 THEN "beam" ELSE "rank"
       ELSE /\ pc' = "done"
            /\ finished' = MergeAndSort(finished, beams)
            /\ UNCHANGED <<b, beams, step>>
    /\ UNCHANGED <<batch_size, stroke_len, beam_width, max_len, mem_nan, bi,
                   candidates, tgt, log_probs, traces, memo>>
    /\ UNCHANGED notPredictVars

NextPredict ==
    \/ Encode
    \/ RetireBeam
    \/ ExpandBeam
    \/ EndStep
    \/ FinishItem

\* A batch of known gestures for the comparison of the call on the batch
\* with the call on one item alone: the same weights serve both calls.
GestureIds == {1, 2}

InitCompare ==
    /\ pc = "call"
    /\ batch_size \in 2..MaxBatch
    /\ beam_width \in 1..MaxBeam
    /\ max_len \in 1..MaxSteps
    /\ batch_size * beam_width * max_len <= MaxCompareWork
    /\ stroke_len = [i \in 1..batch_size |-> MAX_STROKE_LEN]
    /\ mem_nan = [i \in 1..batch_size |-> FALSE]
    /\ b = 0
    /\ step = 0
    /\ bi = 0
    /\ beams = <<>>
    /\ finished = <<>>
    /\ candidates = <<>>
    /\ tgt = NoTokens
    /\ log_probs = NoLogProbs
    /\ all_results = <<>>
    /\ traces \in [1..batch_size -> GestureIds]
    /\ memo = <<>>
    /\ solo = 0
    /\ batch_results = <<>>

\* A batch of different known gestures, some of them of no point, whose
\* decoder outputs are remembered as the search goes.
InitScores ==
    /\ pc = "call"
    /\ batch_size \in 1..MaxBatch
    /\ beam_width \in 1..MaxBeam
    /\ max_len \in 1..MaxSteps
    /\ batch_size * beam_width * max_len <= MaxDecodeWork
    /\ stroke_len \in [1..batch_size -> {0, MAX_STROKE_LEN}]
    /\ mem_nan = [i \in 1..batch_size |-> FALSE]
    /\ b = 0
    /\ step = 0
    /\ bi = 0
    /\ beams = <<>>
    /\ finished = <<>>
    /\ candidates = <<>>
    /\ tgt = NoTokens
    /\ log_probs = NoLogProbs
    /\ all_results = <<>>
    /\ traces \in {g \in [1..batch_size -> GestureIds] :
                      \A i, j \in 1..batch_size : i # j => g[i] # g[j]}
    /\ memo = <<>>

\* One item of a steady gesture, for searches of the default length
\* MAX_WORD_LEN + 2 and of one step more than the positional table of the
\* decoder has rows.
InitLong ==
    /\ pc = "call"
    /\ batch_size = 1
    /\ beam_width \in 1..MaxBeam
    /\ max_len \in {MAX_WORD_LEN + 2, DecPosLen + 1}
    /\ stroke_len = <<MAX_STROKE_LEN>>
    /\ mem_nan = <<FALSE>>
    /\ b = 0
    /\ step = 0
    /\ bi = 0
    /\ beams = <<>>
    /\ finished = <<>>
    /\ candidates = <<>>
    /\ tgt = NoTokens
    /\ log_probs = NoLogProbs
    /\ all_results = <<>>
    /\ traces = SteadyTraces
    /\ memo = <<>>

\* predict returned for the batch; predict is called again with the same
\* weights on the features of item i alone
PredictAlone(i) ==
    /\ pc = "done"
    /\ solo = 0
    /\ traces # <<>>
    /\ i \in 1..batch_size
    /\ solo' = i
    /\ batch_results' = all_results
    /\ pc' = "call"
    /\ batch_size' = 1
    /\ stroke_len' = <<stroke_len[i]>>
    /\ traces' = <<traces[i]>>
    /\ mem_nan' = <<FALSE>>
    /\ b' = 0
    /\ step' = 0
    /\ bi' = 0
    /\ beams' = <<>>
    /\ finished' = <<>>
    /\ candidates' = <<>>
    /\ tgt' = NoTokens
    /\ log_probs' = NoLogProbs
    /\ all_results' = <<>>
    /\ UNCHANGED <<beam_width, max_len, memo>>
    /\ UNCHANGED <<datasetVars, layoutVars, forwardVars, webVars, threadVars>>

NextCompare ==
    \/ NextPredict
    \/ \E i \in 1..MaxBatch : PredictAlone(i)

\* no second call, for the other specifications
IdleCompare ==
    /\ solo = 0
    /\ batch_results = <<>>

-----------------------------------------------------------------------------
(* dataset.py: characters, words and tokens                                *)

LOWERCASE ==
    <<"a", "b", "c", "d", "e", "f", "g", "h", "i", "j", "k", "l", "m",
      "n", "o", "p", "q", "r", "s", "t", "u", "v", "w", "x", "y", "z">>

\* A character is a one-letter string; "sz" stands for U+00DF (sharp s) and
\* "dotless_i" for U+0131, two characters str.upper() maps into A-Z.

\* str.upper() of one character: a string of one or two characters
UpperChar(ch) ==
    IF ch \in Range(LOWERCASE) THEN <<ALPHABET[IndexOf(LOWERCASE, ch)]>>
    ELSE IF ch = "sz" THEN <<"S", "S">>
    ELSE IF ch = "dotless_i" THEN <<"I">>
    ELSE <<ch>>

\* str.upper()
RECURSIVE Upper(_)
Upper(w) == IF w = <<>> THEN <<>> ELSE UpperChar(Head(w)) \o Upper(Tail(w))

\* str.isalpha()
IsAlpha(w) ==
    /\ w # <<>>
    /\ \A i \in 1..Len(w) :
          w[i] \in Range(ALPHABET) \cup Range(LOWERCASE) \cup {"sz", "dotless_i"}

\* mutant of LetterToken: the 0-based index, so that A collides with PAD
LetterTokenZeroBased(ch) == LETTER_TO_IDX(ch)

\* LETTER_TO_IDX[ch] + 1: letters are tokens 1..26 (0 = PAD)
LetterToken(ch) == LETTER_TO_IDX(ch) + 1

\* mutant of Truncate: the word is not cut
TruncateNothing(w) == w

\* word[:MAX_WORD_LEN]
Truncate(w) == Take(w, MAX_WORD_LEN)

\* the loop of dataset.py 106-108 over the characters of w
RECURSIVE LetterTokens(_)
LetterTokens(w) ==
    IF w = <<>> THEN <<>>
    ELSE (IF IsLetterKey(Head(w)) THEN <<LetterToken(Head(w))>> ELSE <<>>)
            \o LetterTokens(Tail(w))

\* dataset.py 104-112: SOS + letters + EOS, padded with PAD to
\* MAX_WORD_LEN + 2; returns the target and target_len
BuildTarget(w) ==
    LET body == <<SOS_TOKEN>> \o LetterTokens(Truncate(w)) \o <<EOS_TOKEN>>
        pad == Max(MAX_WORD_LEN + 2 - Len(body), 0)
    IN  [target |-> body \o [i \in 1..pad |-> PAD_TOKEN],
         target_len |-> Len(body)]

\* chr(ord("A") + t - 1)
TokenChar(t) == ALPHABET[t]

\* model.py 252-262
RECURSIVE tokens_to_word(_)
tokens_to_word(tokens) ==
    IF tokens = <<>> THEN <<>>
    ELSE LET t == Head(tokens)
         IN  IF t = SOS_TOKEN \/ t = PAD_TOKEN THEN tokens_to_word(Tail(tokens))
             ELSE IF t = EOS_TOKEN THEN <<>>
             ELSE IF 1 <= t /\ t <= 26
                  THEN <<TokenChar(t)>> \o tokens_to_word(Tail(tokens))
                  ELSE tokens_to_word(Tail(tokens))

-----------------------------------------------------------------------------
(* dataset.py: the feature encoder                                         *)

\* A missing value (Python None).  No coordinate or time of the model is
\* this small.
None == -1000000

\* milliseconds per second; dt is held in milliseconds
MS_PER_SECOND == 1000

\* feat_dim = 3 + 26
FEAT_DIM == 3 + Len(ALPHABET)

\* mutant of Linspace: the interval is taken half-open (endpoint=False)
LinspaceOpenEnd(n) ==
    [i \in 1..MAX_STROKE_LEN |-> ((i - 1) * n) \div MAX_STROKE_LEN + 1]

\* np.linspace(0, n - 1, MAX_STROKE_LEN, dtype=int), as 1-based indices.
\* 79 is prime, so i * (n - 1) / 79 is a whole number or at least 1/79 away
\* from one: the float product truncates to the exact quotient.
Linspace(n) ==
    [i \in 1..MAX_STROKE_LEN |->
        ((i - 1) * (n - 1)) \div (MAX_STROKE_LEN - 1) + 1]

\* the indices __getitem__ computes for a trace (dataset.py 85-88); the local
\* stays unset for a trace of at most MAX_STROKE_LEN points
NoIndices == <<>>

SubsampleIndices(points) ==
    IF Len(points) > MAX_STROKE_LEN THEN Linspace(Len(points)) ELSE NoIndices

\* mutant of Subsample: long traces are kept whole
SubsampleNothing(points) == points

\* dataset.py 85-89: traces longer than MAX_STROKE_LEN are subsampled
Subsample(points) ==
    IF Len(points) > MAX_STROKE_LEN
    THEN [i \in 1..MAX_STROKE_LEN |-> points[Linspace(Len(points))[i]]]
    ELSE points

\* key_proximity does arithmetic on x and y: a None raises TypeError
PointRaises(pt) == pt[1] = None \/ pt[2] = None

\* dataset.py 95-97: [x, y, dt] + prox
FeatureRow(pt) == <<pt[1], pt[2], pt[3]>> \o key_proximity(pt[1], pt[2])

\* [0.0] * feat_dim
ZeroRow == [c \in 1..FEAT_DIM |-> 0]

\* dataset.py 99-102: pad to MAX_STROKE_LEN rows
PadRows(rows) ==
    rows \o [i \in 1..Max(MAX_STROKE_LEN - Len(rows), 0) |-> ZeroRow]

\* mutant of Augmented: the noise and the factor reach the padding rows too
AugmentedEveryRow(rows, n, nx, ny, factor) ==
    [t \in 1..Len(rows) |->
        IF n > 0
        THEN [c \in 1..FEAT_DIM |->
                 IF c = 1 THEN rows[t][c] + nx[((t - 1) % n) + 1]
                 ELSE IF c = 2 THEN rows[t][c] + ny[((t - 1) % n) + 1]
                 ELSE IF c = 3 THEN (rows[t][c] * factor) \div 1000
                 ELSE rows[t][c]]
        ELSE rows[t]]

\* dataset.py 116-121: noise on x and y of the valid rows, one factor on dt
\* (the factor in thousandths)
Augmented(rows, n, nx, ny, factor) ==
    [t \in 1..Len(rows) |->
        IF t <= n
        THEN [c \in 1..FEAT_DIM |->
                 IF c = 1 THEN rows[t][c] + nx[t]
                 ELSE IF c = 2 THEN rows[t][c] + ny[t]
                 ELSE IF c = 3 THEN (rows[t][c] * factor) \div 1000
                 ELSE rows[t][c]]
        ELSE rows[t]]

\* dataset.py 80-128 without the augmentation
EncodeSample(sample) ==
    LET points == Subsample(sample.points)
        built == BuildTarget(Upper(sample.word))
    IN  [features |-> PadRows([t \in 1..Len(points) |-> FeatureRow(points[t])]),
         stroke_len |-> Len(points),
         target |-> built.target,
         target_len |-> built.target_len]

\* the for loop of dataset.py 95-97 raises on the retained points
EncodeRaises(sample) ==
    \E t \in 1..Len(Subsample(sample.points)) :
        PointRaises(Subsample(sample.points)[t])

-----------------------------------------------------------------------------
(* Bounds and inputs of the dataset model                                  *)

MaxTraceLen == 201   \* points of a trace handed to __getitem__
MaxWordInput == 23   \* characters of a word handed to __getitem__
MaxAugPoints == 2    \* augmentation is explored on traces up to this length
MaxRows == 1         \* rows of the corpus
GridSteps == 8       \* the grid over the key area has this many steps a side
OutsideSpan == 2     \* mobile points reach this many widths outside the square
MaxLayers == 2       \* n_layers ranges over 1..MaxLayers
MaxTargetLen == 4    \* the short targets have 2..MaxTargetLen tokens

NoItem == [features |-> <<>>, stroke_len |-> 0, target |-> <<>>, target_len |-> 0]
NoWord == <<>>

\* a trace of n points that alternates between the centres of H and O; the
\* time delta of point i is i - 1 ms, so that no two points are equal
Trace(n) ==
    [i \in 1..n |->
        LET c == LAYOUT[IF i % 2 = 1 THEN "H" ELSE "O"]
        IN  <<c[1], c[2], i - 1>>]

\* the trace with coordinate axis (1: x, 2: y) of point k missing
WithMissing(points, k, axis) ==
    [i \in 1..Len(points) |->
        IF i = k THEN [points[i] EXCEPT ![axis] = None] ELSE points[i]]

HELLO == <<"h", "e", "l", "l", "o">>

TraceSamples ==
    {[points |-> Trace(n), word |-> HELLO] : n \in 0..MaxTraceLen}
    \cup {[points |-> WithMissing(Trace(n), 2, axis), word |-> HELLO] :
             n \in 2..MaxTraceLen, axis \in {1, 2}}

ModelChars == {"A", "Z", "h", "z", "1", "-", "sz"}

WordBases ==
    {<<c>> : c \in ModelChars} \cup {<<c, e>> : c \in ModelChars, e \in ModelChars}

\* base repeated up to n characters
Repeat(base, n) == [i \in 1..n |-> base[((i - 1) % Len(base)) + 1]]

Words == {Repeat(base, n) : base \in WordBases, n \in 0..MaxWordInput}

WordSamples == {[points |-> Trace(2), word |-> w] : w \in Words}

\* touch points of the corpus: t in milliseconds, x and y in mobile units
FirstTouches ==
    {[t |-> t, x |-> x, y |-> MOBILE_LAYOUT["Q"][2]] :
        t \in {40, None}, x \in {MOBILE_LAYOUT["Q"][1], None}}

LaterTouches ==
    {[t |-> t, x |-> x, y |-> y] :
        t \in {0, 40, 2000, None},
        x \in {MOBILE_LAYOUT["M"][1], None},
        y \in {MOBILE_LAYOUT["M"][2], None}}

TouchTraces ==
    {<<>>}
    \cup {<<p>> : p \in FirstTouches}
    \cup {<<p, q>> : p \in FirstTouches, q \in LaterTouches}

GoodTouchTrace ==
    << [t |-> 0, x |-> MOBILE_LAYOUT["Q"][1], y |-> MOBILE_LAYOUT["Q"][2]],
       [t |-> 40, x |-> MOBILE_LAYOUT["M"][1], y |-> MOBILE_LAYOUT["M"][2]] >>

CorpusRows ==
    {[word |-> HELLO, data |-> d] : d \in TouchTraces}
    \cup {[word |-> w, data |-> GoodTouchTrace] :
             w \in {<<>>, <<"h", "1">>, Repeat(<<"a">>, MAX_WORD_LEN + 1)}}

NoiseValues == {-1, 0, 1}
FactorValues == {900, 1000, 1100}

InitDataset ==
    /\ \/ /\ d_pc = "load"
          /\ samples = <<>>
          /\ \E n \in 1..MaxRows : rows_left \in [1..n -> CorpusRows]
          /\ augment = FALSE
       \/ /\ d_pc = "ready"
          /\ rows_left = <<>>
          /\ \E s \in TraceSamples \cup WordSamples :
                /\ samples = <<s>>
                /\ augment \in {FALSE} \cup
                      (IF s.word = HELLO /\ Len(s.points) <= MaxAugPoints
                       THEN {TRUE} ELSE {})
    /\ skipped = 0
    /\ idx = 0
    /\ item = NoItem
    /\ d_error = "none"
    /\ decoded = NoWord
    /\ indices = NoIndices

\* mutant of RowPoints: the deltas are not clipped
RowPointsUnclipped(data) ==
    LET ts == [i \in 1..Len(data) |-> IF data[i].t # None THEN data[i].t ELSE 0]
        dts == [i \in 1..Len(data) |-> IF i = 1 THEN 0 ELSE ts[i] - ts[i - 1]]
    IN  [i \in 1..Len(data) |->
            LET r == remap_point(data[i].x, data[i].y)
            IN  <<r[1], r[2], dts[i]>>]

\* dataset.py 183-195: time deltas in milliseconds (first 0, clipped to
\* [0, 1 s]) and the remap of every point
RowPoints(data) ==
    LET ts == [i \in 1..Len(data) |-> IF data[i].t # None THEN data[i].t ELSE 0]
        dts == [i \in 1..Len(data) |-> IF i = 1 THEN 0 ELSE ts[i] - ts[i - 1]]
        clip(v) == IF v < 0 THEN 0 ELSE IF v > MS_PER_SECOND THEN MS_PER_SECOND ELSE v
    IN  [i \in 1..Len(data) |->
            LET r == remap_point(data[i].x, data[i].y)
            IN  <<r[1], r[2], clip(dts[i])>>]

\* dataset.py 152-181: the row is filtered out
RowSkipped(row) ==
    \/ row.word = <<>>
    \/ row.data = <<>>
    \/ Len(row.data) < 2
    \/ ~IsAlpha(row.word)
    \/ Len(row.word) > MAX_WORD_LEN
    \/ \E i \in 1..Len(row.data) : row.data[i].x = None \/ row.data[i].y = None

\* load_futo_dataset, one row of the loop at dataset.py 148-200
LoadRow ==
    /\ d_pc = "load"
    /\ rows_left # <<>>
    /\ IF RowSkipped(Head(rows_left))
       THEN /\ skipped' = skipped + 1
            /\ UNCHANGED samples
       ELSE /\ samples' = Append(samples,
                              [points |-> RowPoints(Head(rows_left).data),
                               word |-> Head(rows_left).word])
            /\ UNCHANGED skipped
    /\ rows_left' = Tail(rows_left)
    /\ UNCHANGED <<d_pc, augment, idx, item, d_error, decoded, indices>>
    /\ UNCHANGED notDatasetVars

\* load_futo_dataset returns (dataset.py 202-203) and SwipeDataset is built
\* on the samples (dataset.py 68-75)
FinishLoad ==
    /\ d_pc = "load"
    /\ rows_left = <<>>
    /\ d_pc' = "ready"
    /\ UNCHANGED <<rows_left, samples, skipped, augment, idx, item, d_error,
                   decoded, indices>>
    /\ UNCHANGED notDatasetVars

\* SwipeDataset.__getitem__ (dataset.py 80-128)
GetItem ==
    /\ d_pc = "ready"
    /\ \E i \in 1..Len(samples) :
          /\ idx' = i
          /\ indices' = SubsampleIndices(samples[i].points)
          /\ IF EncodeRaises(samples[i])
             THEN /\ d_pc' = "raised"
                  /\ d_error' = "TypeError"
                  /\ UNCHANGED item
             ELSE /\ d_pc' = "returned"
                  /\ UNCHANGED d_error
                  /\ LET enc == EncodeSample(samples[i])
                         n == enc.stroke_len
                     IN  IF augment
                         THEN \E nx \in [1..n -> NoiseValues],
                                 ny \in [1..n -> NoiseValues],
                                 factor \in FactorValues :
                                 item' = [enc EXCEPT !.features =
                                            Augmented(enc.features, n, nx, ny, factor)]
                         ELSE item' = enc
    /\ UNCHANGED <<rows_left, samples, skipped, augment, decoded>>
    /\ UNCHANGED notDatasetVars

\* tokens_to_word on the target of the returned item
TokensToWord ==
    /\ d_pc = "returned"
    /\ decoded' = tokens_to_word(item.target)
    /\ d_pc' = "decoded"
    /\ UNCHANGED <<rows_left, samples, skipped, augment, idx, item, d_error,
                   indices>>
    /\ UNCHANGED notDatasetVars

NextDataset ==
    \/ LoadRow
    \/ FinishLoad
    \/ GetItem
    \/ TokensToWord

\* the dataset pipeline at rest, for the specification of predict
IdleDataset ==
    /\ d_pc = "idle"
    /\ rows_left = <<>>
    /\ samples = <<>>
    /\ skipped = 0
    /\ augment = FALSE
    /\ idx = 0
    /\ item = NoItem
    /\ d_error = "none"
    /\ decoded = NoWord
    /\ indices = NoIndices

\* predict at rest, for the specification of the dataset pipeline
IdlePredict ==
    /\ pc = "idle"
    /\ batch_size = 0
    /\ beam_width = 0
    /\ max_len = 0
    /\ stroke_len = <<>>
    /\ mem_nan = <<>>
    /\ b = 0
    /\ step = 0
    /\ bi = 0
    /\ beams = <<>>
    /\ finished = <<>>
    /\ candidates = <<>>
    /\ tgt = NoTokens
    /\ log_probs = NoLogProbs
    /\ all_results = <<>>
    /\ traces = <<>>
    /\ memo = <<>>

-----------------------------------------------------------------------------
(* The geometry functions called on a point                                *)

\* A finite float so large that its square is out of the float range:
\* Python's ** raises OverflowError on it.  No coordinate of the model is
\* this large.
HugeFloat == 1000000

\* (x - cx) ** 2 raises OverflowError
PowOverflows(x, y) == x = HugeFloat \/ y = HugeFloat

NoKey == "none"
NoProx == <<>>
NoPoint == <<>>

\* the points exactly half way between two centres of a layout (those that
\* are whole numbers of the fixed-point unit)
Midpoints(layout) ==
    {<<(layout[kk[1]][1] + layout[kk[2]][1]) \div 2,
       (layout[kk[1]][2] + layout[kk[2]][2]) \div 2>> :
        kk \in {pair \in Range(ALPHABET) \X Range(ALPHABET) :
                  /\ (layout[pair[1]][1] + layout[pair[2]][1]) % 2 = 0
                  /\ (layout[pair[1]][2] + layout[pair[2]][2]) % 2 = 0}}

\* points of the target layout: the key centres, the points half way
\* between two centres, and a grid over the key area
TargetPoints ==
    {LAYOUT[k] : k \in Range(ALPHABET)}
    \cup Midpoints(LAYOUT)
    \cup {<<(i * CoordUnit) \div GridSteps, (j * CoordUnit) \div GridSteps>> :
            i \in 0..GridSteps, j \in 0..(GridSteps - 1)}

\* points of the mobile layout: the key centres, the points half way between
\* two centres, points outside the unit square, and an out-of-range float
MobilePoints ==
    {MOBILE_LAYOUT[k] : k \in Range(ALPHABET)}
    \cup Midpoints(MOBILE_LAYOUT)
    \cup {<<i * MobileUnit, j * MobileUnit>> :
            i \in (-OutsideSpan)..OutsideSpan, j \in (-OutsideSpan)..OutsideSpan}
    \cup {<<HugeFloat, MOBILE_LAYOUT["G"][2]>>, <<MOBILE_LAYOUT["G"][1], HugeFloat>>}

InitLayout ==
    /\ g_pc = "point"
    /\ \/ /\ g_frame = "target"
          /\ \E pt \in TargetPoints : g_x = pt[1] /\ g_y = pt[2]
       \/ /\ g_frame = "mobile"
          /\ \E pt \in MobilePoints : g_x = pt[1] /\ g_y = pt[2]
    /\ g_key = NoKey
    /\ g_prox = NoProx
    /\ g_out = NoPoint

\* nearest_key(x, y) (keyboard_layout.py 88-97)
NearestKey ==
    /\ g_pc = "point"
    /\ g_frame = "target"
    /\ IF PowOverflows(g_x, g_y)
       THEN g_pc' = "raised" /\ UNCHANGED g_key
       ELSE g_pc' = "near" /\ g_key' = nearest_key(g_x, g_y)
    /\ UNCHANGED <<g_frame, g_x, g_y, g_prox, g_out>>
    /\ UNCHANGED notLayoutVars

\* key_proximity(x, y) (keyboard_layout.py 100-108)
KeyProximity ==
    /\ g_pc = "near"
    /\ g_prox' = key_proximity(g_x, g_y)
    /\ g_pc' = "done"
    /\ UNCHANGED <<g_frame, g_x, g_y, g_key, g_out>>
    /\ UNCHANGED notLayoutVars

\* remap_point(mx, my) (dataset.py 37-52)
RemapPoint ==
    /\ g_pc = "point"
    /\ g_frame = "mobile"
    /\ IF PowOverflows(g_x, g_y)
       THEN g_pc' = "raised" /\ UNCHANGED <<g_key, g_out>>
       ELSE /\ g_pc' = "done"
            /\ g_key' = nearest_mobile_key(g_x, g_y)
            /\ g_out' = remap_point(g_x, g_y)
    /\ UNCHANGED <<g_frame, g_x, g_y, g_prox>>
    /\ UNCHANGED notLayoutVars

NextLayout ==
    \/ NearestKey
    \/ KeyProximity
    \/ RemapPoint

\* the geometry calls at rest, for the other specifications
IdleLayout ==
    /\ g_pc = "idle"
    /\ g_frame = "none"
    /\ g_x = 0
    /\ g_y = 0
    /\ g_key = NoKey
    /\ g_prox = NoProx
    /\ g_out = NoPoint

-----------------------------------------------------------------------------
(* model.py and export.py: the forward pass                                *)

\* Tensors are modelled by their shape and by what their values are computed
\* from.  The float result of a chain of operations is fixed by the chain:
\* two computations are known to agree bit for bit only if they read the
\* same inputs and perform the same operations in the same order.

\* nn.Linear(input_dim, d_model) on features of feat_dim channels
InputProjRaises(feat_dim, input_dim) == feat_dim # input_dim

\* positions >= stroke_len.unsqueeze(1): TRUE marks a padding position
PaddingMask(len, valid) == [t \in 1..len |-> (t - 1) >= valid]

\* mutant of make_causal_mask: the diagonal is set one too far
CausalMaskDiagonal2(size) ==
    [p \in 1..size |-> [q \in 1..size |-> q > p + 1]]

\* _make_causal_mask: torch.triu(torch.ones(size, size), diagonal=1).bool();
\* TRUE above the diagonal
make_causal_mask(size) ==
    [p \in 1..size |-> [q \in 1..size |-> q > p]]

\* nn.MultiheadAttention with a boolean mask: query position p reads key
\* position q unless the mask marks the pair TRUE
Attends(mask, p, q) == ~mask[p][q]

\* ManualMHA: scores.masked_fill(attn_mask, -inf), then softmax; a score of
\* -inf gets the weight 0, every other score a positive weight
ManualAttends(mask, p, q) ==
    LET score == IF mask[p][q] THEN "-inf" ELSE "finite"
    IN  score # "-inf"

\* Where torch leaves the float result open, a build fixes it: the result
\* of the attention kernel on a fully masked row (NaN or zeros), and the
\* order of the scaling in the attention kernel (the product of query and
\* key scaled, or the query scaled before the product).
Builds == [masked_row : {"nan", "zero"}, scale : {"product", "query"}]

\* what ManualMHA does: torch.softmax over a row of -inf is NaN, and
\* torch.matmul(q, k.transpose(-2, -1)) * self.scale scales the product
ManualBuild == [masked_row |-> "nan", scale |-> "product"]

\* model.py 173 and 115: encode hands stroke_mask to the encoder as
\* src_key_padding_mask
SrcKeyPaddingMask(stroke_mask) == stroke_mask

\* model.py 177 and 144: decode hands stroke_mask to the decoder as
\* memory_key_padding_mask
MemoryKeyPaddingMask(stroke_mask) == stroke_mask

\* the encoder memory: its length, the key positions attention reads,
\* whether it is NaN, and the operation order it was computed in
EncoderMemory(build, seq_len, valid) ==
    LET mask == PaddingMask(seq_len, valid)
        keys == {t \in 1..seq_len : ~mask[t]}
    IN  [len |-> seq_len,
         keys |-> keys,
         nan |-> (keys = {} /\ build.masked_row = "nan"),
         scale |-> build.scale]

\* model.py 112-115 after the input projection and the positional encoding
encode(build, seq_len, valid) == EncoderMemory(build, seq_len, valid)

\* export.py 151-153: the ManualEncoderLayer stack
export_encode(seq_len, valid) == EncoderMemory(ManualBuild, seq_len, valid)

\* one decoder layer on "what each position was computed from": position p
\* keeps its own inputs (the residual) and takes in those of the positions
\* it attends (reads[p]: the key positions query position p reads)
DecoderLayer(deps, reads) ==
    [p \in 1..Len(deps) |-> deps[p] \cup UNION {deps[q] : q \in reads[p]}]

RECURSIVE DecoderLayers(_, _, _)
DecoderLayers(deps, reads, n) ==
    IF n = 0 THEN deps
    ELSE DecoderLayers(DecoderLayer(deps, reads), reads, n - 1)

\* logits that are NaN in every entry
NaNLogits == [nan |-> TRUE]

\* the logits of every position: the target positions and tokens they were
\* computed from, and the memory
Logits(output, memory) ==
    [p \in 1..Len(output) |->
        IF memory.nan THEN NaNLogits
        ELSE [nan |-> FALSE, inputs |-> output[p], memory |-> memory]]

\* token_embed and dec_pos: position p holds token target[p]
Embedded(target) == [p \in 1..Len(target) |-> {<<p, target[p]>>}]

\* SwipeTransformer.decode (model.py 134-147)
decode(target, memory, n_layers) ==
    LET tgt_mask == make_causal_mask(Len(target))
        reads == [p \in 1..Len(target) |->
                     {q \in 1..Len(target) : Attends(tgt_mask, p, q)}]
    IN  Logits(DecoderLayers(Embedded(target), reads, n_layers), memory)

\* export.py 156-167: the ManualDecoderLayer stack under
\* torch.triu(torch.ones(tgt_len, tgt_len), diagonal=1).bool()
export_decode(target, memory, n_layers) ==
    LET tgt_mask == [p \in 1..Len(target) |-> [q \in 1..Len(target) |-> q > p]]
        reads == [p \in 1..Len(target) |->
                     {q \in 1..Len(target) : ManualAttends(tgt_mask, p, q)}]
    IN  Logits(DecoderLayers(Embedded(target), reads, n_layers), memory)

Raised(error) == [status |-> "raised", error |-> error, logits |-> <<>>]

NoResult == [status |-> "none", error |-> "none", logits |-> <<>>]

Returns(logits) == [status |-> "ok", error |-> "none", logits |-> logits]

\* target[:, :-1]
AllButLast(target) == SubSeq(target, 1, Len(target) - 1)

\* SwipeTransformer.forward (model.py 149-178)
forward(build, input_dim, n_layers, feat_dim, seq_len, valid, target) ==
    IF InputProjRaises(feat_dim, input_dim) THEN Raised("RuntimeError")
    ELSE IF PosEncRaises(seq_len, EncPosLen) THEN Raised("RuntimeError")
    ELSE IF PosEncRaises(Len(AllButLast(target)), DecPosLen)
         THEN Raised("RuntimeError")
    ELSE Returns(decode(AllButLast(target), encode(build, seq_len, valid),
                        n_layers))

\* SwipeModelForExport.forward (export.py 141-167)
export_forward(input_dim, n_layers, feat_dim, seq_len, valid, target) ==
    IF InputProjRaises(feat_dim, input_dim) THEN Raised("RuntimeError")
    ELSE IF PosEncRaises(seq_len, EncPosLen) THEN Raised("RuntimeError")
    ELSE IF PosEncRaises(Len(AllButLast(target)), DecPosLen)
         THEN Raised("RuntimeError")
    ELSE Returns(export_decode(AllButLast(target),
                               export_encode(seq_len, valid), n_layers))

\* the tokens of the short targets
TargetTokens == {SOS_TOKEN, 1}

\* all targets of lengths lo..hi over TargetTokens
TargetsOfLen(lo, hi) == UNION {[1..n -> TargetTokens] : n \in lo..hi}

\* a target of n tokens, all SOS (the input export_to_coreml verifies on)
Filled(n) == [i \in 1..n |-> SOS_TOKEN]

\* two short targets that start with the same token
TargetPairs ==
    {pair \in TargetsOfLen(2, MaxTargetLen) \X TargetsOfLen(2, MaxTargetLen) :
        pair[1][1] = pair[2][1]}

InitForward ==
    /\ f_build \in Builds
    /\ f_input_dim = FEAT_DIM
    /\ f_n_layers \in 1..MaxLayers
    /\ \/ /\ f_feat_dim \in {FEAT_DIM - 1, FEAT_DIM, FEAT_DIM + 1}
          /\ \E shape \in {<<MAX_STROKE_LEN, 40>>, <<EncPosLen, EncPosLen>>,
                           <<EncPosLen + 1, EncPosLen + 1>>} :
                f_seq_len = shape[1] /\ f_stroke_len = shape[2]
          /\ \E n \in {MAX_WORD_LEN + 2, DecPosLen + 1, DecPosLen + 2} :
                f_target = <<Filled(n), Filled(n)>>
       \/ /\ f_feat_dim = FEAT_DIM
          /\ f_seq_len = MAX_STROKE_LEN
          /\ f_stroke_len \in {0, 40}
          /\ f_target \in TargetPairs
    /\ f_out = <<NoResult, NoResult>>
    /\ f_export = <<NoResult, NoResult>>

\* model(features, stroke_len, target) in eval mode, on target i (the calls
\* are independent of each other; they are made in one fixed order)
Forward(i) ==
    /\ f_out[i] = NoResult
    /\ \A j \in 1..(i - 1) : f_out[j] # NoResult
    /\ f_out' = [f_out EXCEPT ![i] =
                    forward(f_build, f_input_dim, f_n_layers, f_feat_dim,
                            f_seq_len, f_stroke_len, f_target[i])]
    /\ UNCHANGED <<f_build, f_input_dim, f_n_layers, f_feat_dim, f_seq_len,
                   f_stroke_len, f_target, f_export>>
    /\ UNCHANGED notForwardVars

\* export_model(features, stroke_len, target_tokens), on target i
ExportForward(i) ==
    /\ f_export[i] = NoResult
    /\ \A j \in 1..2 : f_out[j] # NoResult
    /\ \A j \in 1..(i - 1) : f_export[j] # NoResult
    /\ f_export' = [f_export EXCEPT ![i] =
                       export_forward(f_input_dim, f_n_layers, f_feat_dim,
                                      f_seq_len, f_stroke_len, f_target[i])]
    /\ UNCHANGED <<f_build, f_input_dim, f_n_layers, f_feat_dim, f_seq_len,
                   f_stroke_len, f_target, f_out>>
    /\ UNCHANGED notForwardVars

NextForward ==
    \/ \E i \in 1..2 : Forward(i)
    \/ \E i \in 1..2 : ExportForward(i)

\* the forward pass at rest, for the other specifications
IdleForward ==
    /\ f_build = ManualBuild
    /\ f_input_dim = 0
    /\ f_n_layers = 0
    /\ f_feat_dim = 0
    /\ f_seq_len = 0
    /\ f_stroke_len = 0
    /\ f_target = <<>>
    /\ f_out = <<>>
    /\ f_export = <<>>

-----------------------------------------------------------------------------
(* The webhook test server (src/tests/webhook_server.py)                   *)

\* webhook_server.py 61-62: the store keeps the last 100 requests
STORE_LIMIT == 100

\* the methods WebhookHandler routes (webhook_server.py 282-295); OPTIONS
\* has a do_ method of its own
RoutedMethods == {"GET", "POST", "PUT", "DELETE", "PATCH"}

Methods == RoutedMethods \cup {"OPTIONS"}

\* A path is the sequence of its segments: /error/500 is <<"error", "500">>,
\* /error/500/ is <<"error", "500", "">>.
Paths ==
    {<<"health">>, <<"requests">>, <<"echo">>, <<"slow">>, <<"webhook">>,
     <<"webhook", "x">>, <<"webhookx">>, <<"error", "500">>,
     <<"error", "204">>, <<"error", "abc">>, <<"error", "500", "">>}

\* What the client sends as a body:
\*   "none"        no Content-Length header
\*   "text"        a Content-Length and as many bytes of UTF-8
\*   "bad_length"  a Content-Length that is not a number
\*   "bad_utf8"    a Content-Length and as many bytes that are not UTF-8;
\*                 the client then closes its side of the connection
Bodies == {"none", "text", "bad_length", "bad_utf8"}

\* the requests of the model: every method on every path without a body, and
\* POST with each body on a webhook path and on an error path
Requests ==
    {[method |-> m, path |-> p, body |-> "none"] : m \in Methods, p \in Paths}
    \cup {[method |-> "POST", path |-> p, body |-> bd] :
            p \in {<<"webhook">>, <<"error", "500">>}, bd \in Bodies}

\* int(s) for the last segment of a path: the number, or ValueError
IntSegments == ("500" :> 500) @@ ("204" :> 204)

IntRaises(segment) == segment \notin DOMAIN IntSegments

\* webhook_server.py 88-93, _get_body: int(content_length) raises ValueError
\* and decode('utf-8') raises UnicodeDecodeError, a ValueError; consumed is
\* TRUE when an earlier call has read the bytes of the body, and the read
\* then returns what is left before the end of the stream, nothing
GetBodyRaises(request, consumed) ==
    \/ request.body = "bad_length"
    \/ request.body = "bad_utf8" /\ ~consumed

GetBody(request, consumed) ==
    IF request.body = "none" THEN "None"
    ELSE IF consumed THEN "" ELSE request.body

\* webhook_server.py 57-62, RequestStore.add
Add(requests, request) ==
    LET appended == Append(requests, request)
    IN  IF Len(appended) > STORE_LIMIT
        THEN SubSeq(appended, Len(appended) - STORE_LIMIT + 1, Len(appended))
        ELSE appended

\* webhook_server.py 100-108: the CapturedRequest of the request that arrived
\* as number id (the number stands for its timestamp)
Captured(id, request, consumed) ==
    [id |-> id, method |-> request.method, path |-> request.path,
     body |-> GetBody(request, consumed)]

\* webhook_server.py 142-154: a response is its status and whether it has a
\* JSON body; requests is the list in the body of GET /requests
JsonResponse(status) == [status |-> status, body |-> "json", requests |-> <<>>]

EmptyResponse(status) ==
    [status |-> status, body |-> "empty", requests |-> <<>>]

ListResponse(requests) ==
    [status |-> 200, body |-> "json", requests |-> requests]

\* an exception left the handler: the connection is closed without a response
NoResponse == [status |-> 0, body |-> "none", requests |-> <<>>]

NoRequest == [method |-> "none", path |-> <<>>, body |-> "none"]

\* webhook_server.py 237-280, _route_request: the handler a routed request
\* goes to
Route(method, path) ==
    IF path = <<"health">> THEN "health"
    ELSE IF path = <<"requests">> /\ method = "GET" THEN "requests_list"
    ELSE IF path = <<"requests">> /\ method = "DELETE" THEN "requests_clear"
    ELSE IF path = <<"echo">> THEN "echo"
    ELSE IF path = <<"slow">> THEN "slow"
    ELSE IF Len(path) >= 2 /\ path[1] = "error" THEN "error"
    ELSE IF path[1] = "webhook" THEN "webhook"
    ELSE "default"

\* webhook_server.py 270-280: the status of a webhook and of the default route
WebhookStatus(handler, method) ==
    IF handler = "webhook" /\ method = "POST" THEN 201
    ELSE IF handler = "webhook" /\ method = "DELETE" THEN 204
    ELSE 200

\* a request arrives: it gets the next number and joins the requests sent
\* since the store was cleared
Arrive(request) ==
    /\ w_count < MaxRequests
    /\ request \in Requests
    /\ w_count' = w_count + 1
    /\ w_request' = request

Sent(request) ==
    Append(w_sent, [id |-> w_count + 1, method |-> request.method,
                    path |-> request.path])

\* webhook_server.py 95-112 and 156-164: _capture_request, then the response;
\* when _get_body raises, nothing is stored and nothing is sent
CaptureAndSend(request, response, events) ==
    IF GetBodyRaises(request, FALSE)
    THEN /\ w_store' = w_store
         /\ w_response' = NoResponse
         /\ w_events' = <<"raise">>
    ELSE /\ w_store' = Add(w_store, Captured(w_count + 1, request, FALSE))
         /\ w_response' = response
         /\ w_events' = events

\* do_GET .. do_PATCH on /webhook, /webhook/... (270-277) and on a path no
\* other branch takes (280)
HandleWebhook(request) ==
    /\ Arrive(request)
    /\ request.method \in RoutedMethods
    /\ Route(request.method, request.path) \in {"webhook", "default"}
    /\ LET status ==
               WebhookStatus(Route(request.method, request.path),
                             request.method)
       IN  CaptureAndSend(request,
                          IF status = 204 THEN EmptyResponse(status)
                          ELSE JsonResponse(status),
                          <<"add", "send">>)
    /\ w_sent' = Sent(request)
    /\ UNCHANGED notWebVars

\* /echo (166-186)
HandleEcho(request) ==
    /\ Arrive(request)
    /\ request.method \in RoutedMethods
    /\ Route(request.method, request.path) = "echo"
    /\ CaptureAndSend(request, JsonResponse(200), <<"add", "send">>)
    /\ w_sent' = Sent(request)
    /\ UNCHANGED notWebVars

\* /slow (188-196)
HandleSlow(request) ==
    /\ Arrive(request)
    /\ request.method \in RoutedMethods
    /\ Route(request.method, request.path) = "slow"
    /\ CaptureAndSend(request, JsonResponse(200), <<"add", "sleep", "send">>)
    /\ w_sent' = Sent(request)
    /\ UNCHANGED notWebVars

\* /error/... (261-267 and 198-215): int() of the last segment and
\* _handle_error(code) are both inside the try; on a ValueError of either,
\* _handle_error(400) captures again
HandleError(request) ==
    /\ Arrive(request)
    /\ request.method \in RoutedMethods
    /\ Route(request.method, request.path) = "error"
    /\ IF ~IntRaises(Last(request.path)) /\ ~GetBodyRaises(request, FALSE)
       THEN /\ w_store' = Add(w_store, Captured(w_count + 1, request, FALSE))
            /\ w_response' = JsonResponse(IntSegments[Last(request.path)])
            /\ w_events' = <<"add", "send">>
       ELSE LET consumed == ~IntRaises(Last(request.path))
            IN  IF GetBodyRaises(request, consumed)
                THEN /\ w_store' = w_store
                     /\ w_response' = NoResponse
                     /\ w_events' = <<"raise", "raise">>
                ELSE /\ w_store' =
                           Add(w_store, Captured(w_count + 1, request, consumed))
                     /\ w_response' = JsonResponse(400)
                     /\ w_events' = <<"raise", "add", "send">>
    /\ w_sent' = Sent(request)
    /\ UNCHANGED notWebVars

\* GET /requests (217-222)
HandleRequestsList(request) ==
    /\ Arrive(request)
    /\ request.method \in RoutedMethods
    /\ Route(request.method, request.path) = "requests_list"
    /\ w_response' = ListResponse(w_store)
    /\ w_events' = <<"send">>
    /\ w_sent' = Sent(request)
    /\ UNCHANGED w_store
    /\ UNCHANGED notWebVars

\* DELETE /requests (224-227)
HandleRequestsClear(request) ==
    /\ Arrive(request)
    /\ request.method \in RoutedMethods
    /\ Route(request.method, request.path) = "requests_clear"
    /\ w_store' = <<>>
    /\ w_response' = JsonResponse(200)
    /\ w_events' = <<"clear", "send">>
    /\ w_sent' = <<>>
    /\ UNCHANGED notWebVars

\* /health (229-235)
HandleHealth(request) ==
    /\ Arrive(request)
    /\ request.method \in RoutedMethods
    /\ Route(request.method, request.path) = "health"
    /\ w_response' = JsonResponse(200)
    /\ w_events' = <<"send">>
    /\ w_sent' = Sent(request)
    /\ UNCHANGED w_store
    /\ UNCHANGED notWebVars

\* do_OPTIONS (297-303): 200 and the CORS headers on every path
DoOptions(request) ==
    /\ Arrive(request)
    /\ request.method = "OPTIONS"
    /\ w_response' = EmptyResponse(200)
    /\ w_events' = <<"send">>
    /\ w_sent' = Sent(request)
    /\ UNCHANGED w_store
    /\ UNCHANGED notWebVars

\* The requests before the ones of the model: after DELETE /requests, n times
\* POST /webhook without a body.  The requests of the model are numbered
\* from 1, the earlier ones up to 0.
Earlier(n) ==
    [i \in 1..n |-> [id |-> i - n, method |-> "POST", path |-> <<"webhook">>]]

EarlierStored(n) ==
    [i \in 1..n |->
        [id |-> i - n, method |-> "POST", path |-> <<"webhook">>,
         body |-> "None"]]

InitWeb ==
    /\ \E n \in {0, STORE_LIMIT} :
          /\ w_store = EarlierStored(n)
          /\ w_sent = Earlier(n)
    /\ w_count = 0
    /\ w_request = NoRequest
    /\ w_response = NoResponse
    /\ w_events = <<>>

NextWeb ==
    \E request \in Requests :
        \/ HandleWebhook(request)
        \/ HandleEcho(request)
        \/ HandleSlow(request)
        \/ HandleError(request)
        \/ HandleRequestsList(request)
        \/ HandleRequestsClear(request)
        \/ HandleHealth(request)
        \/ DoOptions(request)

\* the server was not started, for the other specifications
IdleWeb ==
    /\ w_store = <<>>
    /\ w_count = 0
    /\ w_sent = <<>>
    /\ w_request = NoRequest
    /\ w_response = NoResponse
    /\ w_events = <<>>

-----------------------------------------------------------------------------
(* RequestStore called from several threads (webhook_server.py 50-74)      *)

Threads == 1..MaxThreads

StorePaths == {<<"webhook">>, <<"echo">>}

\* mutant of LockFree: the method body is entered without waiting for the
\* lock
LockIgnored(lock) == TRUE

\* with self._lock: the body is entered when no thread holds the lock
LockFree(lock) == lock = 0

\* the part of a stored request the methods look at
StoreEntry(id, path) ==
    [id |-> id, method |-> "POST", path |-> path, body |-> "None"]

\* a thread calls add, get_all, clear or find_by_path and takes the lock
Enter(t, op, path) ==
    /\ t_pc[t] = "idle"
    /\ t_calls < MaxCalls
    /\ LockFree(t_lock)
    /\ t_lock' = t
    /\ t_pc' = [t_pc EXCEPT ![t] = op]
    /\ t_arg' = [t_arg EXCEPT ![t] = path]
    /\ t_calls' = t_calls + 1
    /\ UNCHANGED <<t_requests, t_local, t_ret, t_added>>
    /\ UNCHANGED notThreadVars

\* leaving the with block
Released(t) ==
    /\ t_lock' = 0
    /\ t_pc' = [t_pc EXCEPT ![t] = "idle"]

\* line 59: self._requests.append(request)
AddAppend(t) ==
    /\ t_pc[t] = "add"
    /\ t_requests' = Append(t_requests, StoreEntry(t_calls, t_arg[t]))
    /\ t_added' = Append(t_added, StoreEntry(t_calls, t_arg[t]))
    /\ t_pc' = [t_pc EXCEPT ![t] = "check"]
    /\ UNCHANGED <<t_lock, t_arg, t_local, t_ret, t_calls>>
    /\ UNCHANGED notThreadVars

\* lines 61-62: the test of the length and the value of self._requests[-100:]
AddSlice(t) ==
    /\ t_pc[t] = "check"
    /\ IF Len(t_requests) > STORE_LIMIT
       THEN /\ t_local' =
                  [t_local EXCEPT ![t] =
                      SubSeq(t_requests, Len(t_requests) - STORE_LIMIT + 1,
                             Len(t_requests))]
            /\ t_pc' = [t_pc EXCEPT ![t] = "assign"]
            /\ UNCHANGED t_lock
       ELSE /\ Released(t)
            /\ UNCHANGED t_local
    /\ UNCHANGED <<t_requests, t_arg, t_ret, t_calls, t_added>>
    /\ UNCHANGED notThreadVars

\* line 62: self._requests = ...
AddAssign(t) ==
    /\ t_pc[t] = "assign"
    /\ t_requests' = t_local[t]
    /\ t_local' = [t_local EXCEPT ![t] = <<>>]
    /\ Released(t)
    /\ UNCHANGED <<t_arg, t_ret, t_calls, t_added>>
    /\ UNCHANGED notThreadVars

\* lines 64-66: get_all
GetAll(t) ==
    /\ t_pc[t] = "get_all"
    /\ t_ret' = [t_ret EXCEPT ![t] = t_requests]
    /\ Released(t)
    /\ UNCHANGED <<t_requests, t_arg, t_local, t_calls, t_added>>
    /\ UNCHANGED notThreadVars

\* lines 68-70: clear
Clear(t) ==
    /\ t_pc[t] = "clear"
    /\ t_requests' = <<>>
    /\ t_added' = <<>>
    /\ Released(t)
    /\ UNCHANGED <<t_arg, t_local, t_ret, t_calls>>
    /\ UNCHANGED notThreadVars

WithPath(requests, path) ==
    LET Matches(r) == r.path = path IN SelectSeq(requests, Matches)

\* lines 72-74: find_by_path
FindByPath(t) ==
    /\ t_pc[t] = "find_by_path"
    /\ t_ret' = [t_ret EXCEPT ![t] = WithPath(t_requests, t_arg[t])]
    /\ Released(t)
    /\ UNCHANGED <<t_requests, t_arg, t_local, t_calls, t_added>>
    /\ UNCHANGED notThreadVars

\* the store holds the requests of n earlier calls of add (numbered up to 0)
InitThreads ==
    /\ \E n \in {0, STORE_LIMIT - 1, STORE_LIMIT} :
          /\ t_requests = EarlierStored(n)
          /\ t_added = EarlierStored(n)
    /\ t_lock = 0
    /\ t_pc = [t \in Threads |-> "idle"]
    /\ t_arg = [t \in Threads |-> <<>>]
    /\ t_local = [t \in Threads |-> <<>>]
    /\ t_ret = [t \in Threads |-> <<>>]
    /\ t_calls = 0

NextThreads ==
    \E t \in Threads :
        \/ \E op \in {"add", "get_all", "clear", "find_by_path"} :
              \E path \in StorePaths : Enter(t, op, path)
        \/ AddAppend(t)
        \/ AddSlice(t)
        \/ AddAssign(t)
        \/ GetAll(t)
        \/ Clear(t)
        \/ FindByPath(t)

\* no RequestStore is shared by threads, for the other specifications
IdleThreads ==
    /\ t_requests = <<>>
    /\ t_lock = 0
    /\ t_pc = <<>>
    /\ t_arg = <<>>
    /\ t_local = <<>>
    /\ t_ret = <<>>
    /\ t_calls = 0
    /\ t_added = <<>>

-----------------------------------------------------------------------------
(* The specifications                                                      *)

Init ==
    InitPredict /\ IdleCompare /\ IdleDataset /\ IdleLayout /\ IdleForward
    /\ IdleWeb /\ IdleThreads

Next == NextPredict

Spec == Init /\ [][Next]_vars

InitData ==
    InitDataset /\ IdlePredict /\ IdleCompare /\ IdleLayout /\ IdleForward
    /\ IdleWeb /\ IdleThreads

SpecDataset == InitData /\ [][NextDataset]_vars

InitGeometry ==
    InitLayout /\ IdlePredict /\ IdleCompare /\ IdleDataset /\ IdleForward
    /\ IdleWeb /\ IdleThreads

SpecLayout == InitGeometry /\ [][NextLayout]_vars

InitModel ==
    InitForward /\ IdlePredict /\ IdleCompare /\ IdleDataset /\ IdleLayout
    /\ IdleWeb /\ IdleThreads

SpecForward == InitModel /\ [][NextForward]_vars

InitBatch ==
    InitCompare /\ IdleDataset /\ IdleLayout /\ IdleForward /\ IdleWeb
    /\ IdleThreads

SpecBatch == InitBatch /\ [][NextCompare]_vars

InitLongSearch ==
    InitLong /\ IdleCompare /\ IdleDataset /\ IdleLayout /\ IdleForward
    /\ IdleWeb /\ IdleThreads

SpecLong == InitLongSearch /\ [][NextPredict]_vars

InitScoredSearch ==
    InitScores /\ IdleCompare /\ IdleDataset /\ IdleLayout /\ IdleForward
    /\ IdleWeb /\ IdleThreads

SpecScores == InitScoredSearch /\ [][NextPredict]_vars

InitServer ==
    InitWeb /\ IdlePredict /\ IdleCompare /\ IdleDataset /\ IdleLayout
    /\ IdleForward /\ IdleThreads

SpecWeb == InitServer /\ [][NextWeb]_vars

InitStore ==
    InitThreads /\ IdlePredict /\ IdleCompare /\ IdleDataset /\ IdleLayout
    /\ IdleForward /\ IdleWeb

SpecThreads == InitStore /\ [][NextThreads]_vars

-----------------------------------------------------------------------------
(* Properties of predict                                                   *)

\* verify_beam.py 88-102: the tokens a greedy step may append: the non-PAD
\* tokens of the highest log-probability
GreedyNext(lp) ==
    {t \in ModelVocab \ {PAD_TOKEN} :
        \A u \in ModelVocab \ {PAD_TOKEN} : lp[u] <= lp[t]}

\* the state right after the single beam of a width-1 search on a
\* non-empty stroke was extended
GreedyStepTaken ==
    /\ pc = "beam"
    /\ beam_width = 1
    /\ Len(candidates) = 1
    /\ stroke_len[b] > 0

\* PAD has the same log-probability as the best other token: which of them
\* a sort puts first is unspecified
PadTiesBest(lp) == \E t \in GreedyNext(lp) : lp[t] = lp[PAD_TOKEN]

\* C1: with beam_width = 1 predict returns exactly one sequence per item and
\* every token it appends is a highest-probability token other than PAD, so
\* the sequence is the greedy one.
C1_BeamOneIsGreedy ==
    /\ GreedyStepTaken =>
          \/ Last(candidates[1].tokens) \in GreedyNext(log_probs)
          \/ Last(candidates[1].tokens) = PAD_TOKEN /\ PadTiesBest(log_probs)
    /\ beam_width = 1 =>
          \A i \in 1..Len(all_results) : Len(all_results[i]) = 1

\* C2: an item whose stroke_len is 0 gets an empty candidate list.
C2_EmptyForZeroLength ==
    \A i \in 1..Len(all_results) :
        stroke_len[i] = 0 => all_results[i] = <<>>

\* res holds the best entries of merged under the normalized key, in
\* non-increasing order of that key
IsTopByNorm(res, merged, k) ==
    /\ Len(res) = Min(k, Len(merged))
    /\ \E f \in [1..Len(res) -> 1..Len(merged)] :
          /\ \A i, j \in 1..Len(res) : i # j => f[i] # f[j]
          /\ \A i \in 1..Len(res) : merged[f[i]] = res[i]
          /\ \A j \in 1..Len(merged) :
                (\A i \in 1..Len(res) : f[i] # j) =>
                   \A i \in 1..Len(res) :
                      ~KeyLess(NormKey(res[i]), NormKey(merged[j]))
    /\ \A i \in 1..(Len(res) - 1) :
          ~KeyLess(NormKey(res[i]), NormKey(res[i + 1]))

\* C3: when an item is finished, its list holds at most beam_width entries,
\* they are the best of finished merged with the active beams under
\* score / max(len, 1), in non-increasing order of that key, and no beam
\* left out has a strictly higher key than a returned one.
C3_FinalRanking ==
    [][pc = "rank" =>
          IsTopByNorm(Last(all_results'), finished \o beams, beam_width)]_vars

\* C3 witness: a finished search of width 2 whose merged list held three or
\* more beams of different normalized scores, so that one was left out
C3_Witness ==
    /\ pc = "done"
    /\ beam_width = 2
    /\ Len(finished) >= 3
    /\ Len(Last(all_results)) = 2
    /\ KeyLess(NormKey(finished[3]), NormKey(finished[2]))
    /\ KeyLess(NormKey(finished[2]), NormKey(finished[1]))

\* reported = cumulative / len, for floats
IsQuotient(reported, cumulative, len) ==
    IF IsNaN(cumulative) THEN IsNaN(reported)
    ELSE ~IsNaN(reported) /\ reported * len = cumulative

\* C4: every returned pair carries the length-normalized score (the
\* cumulative log-probability, kept in the merged list, divided by
\* max(len(tokens), 1)), and each list is in non-increasing order of the
\* reported score.
C4_ReportedScoreNormalized ==
    /\ pc = "done" /\ stroke_len[batch_size] > 0 =>
          \A i \in 1..Len(Last(all_results)) :
              /\ Last(all_results)[i].tokens = finished[i].tokens
              /\ IsQuotient(Last(all_results)[i].score, finished[i].score,
                            Max(Len(finished[i].tokens), 1))
    /\ \A n \in 1..Len(all_results) :
          \A i \in 1..(Len(all_results[n]) - 1) :
              stroke_len[n] > 0 =>
              ~KeyLess(ScoreKey(all_results[n][i]), ScoreKey(all_results[n][i + 1]))

EosOnlyLast(tokens) == \A i \in 1..(Len(tokens) - 1) : tokens[i] # EOS_TOKEN

\* C5: a beam that ends in EOS is never handed to decode and never
\* extended; during the search the finished set holds only beams ending in
\* EOS; EOS occurs in a beam of the active set, the finished set, the pool
\* or a result only as the final token.
C5_EosIsFinal ==
    /\ tgt # NoTokens => Last(tgt) # EOS_TOKEN
    /\ pc = "beam" =>
          \A i \in 1..Len(finished) : Last(finished[i].tokens) = EOS_TOKEN
    /\ \A i \in 1..Len(beams) : EosOnlyLast(beams[i].tokens)
    /\ \A i \in 1..Len(finished) : EosOnlyLast(finished[i].tokens)
    /\ \A i \in 1..Len(candidates) : EosOnlyLast(candidates[i].tokens)
    /\ \A n \in 1..Len(all_results) :
          \A i \in 1..Len(all_results[n]) : EosOnlyLast(all_results[n][i].tokens)

\* C5 witness: in one step a beam ending in EOS was moved to finished and
\* the other beam was handed to decode
C5_Witness ==
    /\ pc = "beam"
    /\ finished # <<>>
    /\ Last(Last(finished).tokens) = EOS_TOKEN
    /\ tgt # NoTokens
    /\ candidates # <<>>

\* C6: every returned sequence begins with SOS and has at most max_len
\* tokens in total (22 for the default max_len = MAX_WORD_LEN + 2).
C6_LengthCap ==
    max_len >= 2 =>
       \A n \in 1..Len(all_results) :
          \A i \in 1..Len(all_results[n]) :
              stroke_len[n] > 0 =>
              /\ all_results[n][i].tokens[1] = SOS_TOKEN
              /\ Len(all_results[n][i].tokens) <= max_len

-----------------------------------------------------------------------------
(* Properties of the dataset pipeline                                      *)

Returned == d_pc \in {"returned", "decoded"}

\* the word handed to __getitem__
InputWord == samples[idx].word

\* the trace handed to __getitem__
InputPoints == samples[idx].points

\* 1 to 20 letters A-Z in any case
IsAZWord(w) ==
    /\ Len(w) \in 1..MAX_WORD_LEN
    /\ \A i \in 1..Len(w) : w[i] \in Range(ALPHABET) \cup Range(LOWERCASE)

\* the word with every letter in upper case
UpperCased(w) ==
    [i \in 1..Len(w) |->
        IF w[i] \in Range(LOWERCASE) THEN ALPHABET[IndexOf(LOWERCASE, w[i])]
        ELSE w[i]]

\* C7: for a word of 1 to 20 letters A-Z in any case, tokens_to_word of the
\* target __getitem__ built is the upper-cased word.
C7_TokenRoundTrip ==
    (d_pc = "decoded" /\ IsAZWord(InputWord)) => decoded = UpperCased(InputWord)

\* C7 witness: a 20-letter word of mixed case was encoded and decoded back
C7_Witness ==
    /\ d_pc = "decoded"
    /\ Len(InputWord) = MAX_WORD_LEN
    /\ IsAZWord(InputWord)
    /\ InputWord[1] = "h"
    /\ InputWord[2] = "Z"
    /\ decoded = UpperCased(InputWord)

\* C8: for every word the target has exactly 22 tokens, starts with SOS,
\* holds exactly one EOS, only letter tokens 1..26 (at most 20) between SOS
\* and EOS, and only PAD after EOS.
C8_TargetShape ==
    Returned =>
       LET t == item.target
       IN  /\ Len(t) = 22
           /\ t[1] = SOS_TOKEN
           /\ Cardinality({i \in 1..Len(t) : t[i] = EOS_TOKEN}) = 1
           /\ \E e \in 2..Len(t) :
                 /\ t[e] = EOS_TOKEN
                 /\ e - 2 <= 20
                 /\ \A i \in 2..(e - 1) : t[i] \in 1..26
                 /\ \A i \in (e + 1)..Len(t) : t[i] = PAD_TOKEN

\* C8 witness: a word of more than 20 characters, not all of them letters,
\* was encoded
C8_Witness ==
    /\ Returned
    /\ Len(InputWord) > MAX_WORD_LEN
    /\ \E i \in 1..Len(InputWord) : InputWord[i] = "1"
    /\ \E i \in 1..Len(InputWord) : InputWord[i] = "sz"

\* fewer than 2 samples, or a sample without x or without y
BadTrace(points) ==
    \/ Len(points) < 2
    \/ \E i \in 1..Len(points) : points[i][1] = None \/ points[i][2] = None

\* C9: a trace with fewer than 2 samples or with a sample lacking x or y
\* makes the encoder fail and yields no encoded trace, whether the trace
\* came through load_futo_dataset or was handed to __getitem__ directly.
C9_BadTraceRejected ==
    (idx # 0 /\ BadTrace(InputPoints)) => (d_pc = "raised" /\ item = NoItem)

\* C10: the feature tensor has exactly 80 timesteps of 29 channels and
\* stroke_len is min(n, 80) for a trace of n points.
C10_FeatureShape ==
    Returned =>
       /\ Len(item.features) = 80
       /\ \A t \in 1..Len(item.features) : Len(item.features[t]) = 29
       /\ item.stroke_len = Min(Len(InputPoints), 80)
       /\ item.stroke_len <= 80

\* C10 witness: a trace of 200 points was encoded
C10_Witness ==
    /\ Returned
    /\ Len(InputPoints) = 200
    /\ item.stroke_len = MAX_STROKE_LEN

\* C11: a trace of n > 80 points is subsampled at exactly 80 strictly
\* increasing indices, the first being the first point and the last the last
\* point, and the encoded rows are the points at these indices; a trace of
\* at most 80 points is kept unchanged.
C11_SubsampleIndices ==
    (Returned /\ ~augment) =>
       LET n == Len(InputPoints)
       IN  IF n > MAX_STROKE_LEN
           THEN /\ Len(indices) = MAX_STROKE_LEN
                /\ \A i \in 1..(Len(indices) - 1) : indices[i] < indices[i + 1]
                /\ indices[1] = 1
                /\ indices[Len(indices)] = n
                /\ \A t \in 1..MAX_STROKE_LEN :
                      item.features[t] = FeatureRow(InputPoints[indices[t]])
           ELSE /\ indices = NoIndices
                /\ item.stroke_len = n
                /\ \A t \in 1..n : item.features[t] = FeatureRow(InputPoints[t])

\* C11 witness: a trace of 200 points was subsampled and its last row is
\* the last point of the trace
C11_Witness ==
    /\ Returned
    /\ Len(InputPoints) = 200
    /\ indices[MAX_STROKE_LEN] = 200
    /\ item.features[MAX_STROKE_LEN][3] = 199

-----------------------------------------------------------------------------
(* Properties of the geometry                                              *)

\* C12: the 26 normalized centres are pairwise distinct, and nearest_key
\* applied to the centre of a letter returns that letter.
C12_CenterIsOwnNearest ==
    /\ \A k1, k2 \in Range(ALPHABET) : k1 # k2 => LAYOUT[k1] # LAYOUT[k2]
    /\ (g_frame = "target" /\ g_pc \in {"near", "done"}) =>
          \A k \in Range(ALPHABET) : <<g_x, g_y>> = LAYOUT[k] => g_key = k

\* C12 witness: nearest_key was applied to the centre of M, the last key
\* of the scan, and returned M
C12_Witness ==
    /\ g_frame = "target"
    /\ g_pc = "near"
    /\ <<g_x, g_y>> = LAYOUT["M"]
    /\ g_key = "M"

\* the first index at which a vector is maximal
ArgMaxFirst(v) ==
    CHOOSE i \in 1..Len(v) :
        /\ \A j \in 1..Len(v) : v[j] <= v[i]
        /\ \A j \in 1..(i - 1) : v[j] < v[i]

\* C13: for every coordinate, points equidistant from several centres
\* included, the letter at the first maximal index of key_proximity(x, y)
\* is the letter nearest_key(x, y) returns.
C13_ArgmaxIsNearest ==
    (g_frame = "target" /\ g_pc = "done") =>
       ALPHABET[ArgMaxFirst(g_prox)] = g_key

\* C18: for every mobile coordinate remap_point returns the target centre of
\* a key whose mobile centre is at least distance from the point (so the
\* result is one of the 26 target centres and the call does not fail), and
\* the mobile centre of a letter is mapped to the target centre of that
\* letter.
C18_RemapIsNearestCenter ==
    g_frame = "mobile" =>
       /\ g_pc # "raised"
       /\ g_pc = "done" =>
             /\ \E k \in Range(ALPHABET) :
                   /\ g_out = LAYOUT[k]
                   /\ \A j \in Range(ALPHABET) :
                         Dist2(g_x, g_y, MOBILE_LAYOUT[k])
                            <= Dist2(g_x, g_y, MOBILE_LAYOUT[j])
             /\ \A k \in Range(ALPHABET) :
                   <<g_x, g_y>> = MOBILE_LAYOUT[k] => g_out = LAYOUT[k]

-----------------------------------------------------------------------------
(* Properties of the forward pass                                          *)

\* the decoder input of target i
DecInput(i) == AllButLast(f_target[i])

\* s and t agree on their first i positions
AgreeUpTo(s, t, i) ==
    /\ i <= Len(s)
    /\ i <= Len(t)
    /\ \A p \in 1..i : s[p] = t[p]

\* the logits of two runs agree wherever the decoder inputs agree up to
\* there
CausalPair(r1, r2) ==
    (r1.status = "ok" /\ r2.status = "ok") =>
       \A i \in 1..Min(Len(DecInput(1)), Len(DecInput(2))) :
           AgreeUpTo(DecInput(1), DecInput(2), i) =>
              \A p \in 1..i : r1.logits[p] = r2.logits[p]

\* C14: for two target sequences that agree on positions 0..i the decoder
\* logits at every position <= i are identical, in SwipeTransformer.decode
\* and in the ManualMHA decoder; the causal mask lets position p attend
\* position q exactly when q <= p.
C14_CausalMask ==
    /\ CausalPair(f_out[1], f_out[2])
    /\ CausalPair(f_export[1], f_export[2])
    /\ \A i \in 1..Len(f_target) :
          LET n == Len(DecInput(i))
          IN  \A p, q \in 1..n :
                 /\ Attends(make_causal_mask(n), p, q) <=> q <= p
                 /\ ManualAttends(make_causal_mask(n), p, q) <=> q <= p

\* C14 witness: two decoder inputs with the same first token and different
\* second tokens were decoded; the logits agree at the first position and
\* differ at the second
C14_Witness ==
    /\ f_out[1].status = "ok"
    /\ f_out[2].status = "ok"
    /\ Len(DecInput(1)) >= 2
    /\ Len(DecInput(2)) >= 2
    /\ DecInput(1)[1] = DecInput(2)[1]
    /\ DecInput(1)[2] # DecInput(2)[2]
    /\ f_out[1].logits[1] = f_out[2].logits[1]
    /\ f_out[1].logits[2] # f_out[2].logits[2]

\* C15: SwipeTransformer.forward ends in an error and returns no logits
\* whenever the features have another last dimension than input_dim,
\* whenever the stroke sequence is longer than the encoder positional table
\* (90), and whenever the decoder input is longer than the decoder
\* positional table (30).
C15_ForwardRejects ==
    \A i \in 1..Len(f_out) :
        (/\ f_out[i] # NoResult
         /\ \/ f_feat_dim # f_input_dim
            \/ f_seq_len > MAX_STROKE_LEN + 10
            \/ Len(DecInput(i)) > MAX_WORD_LEN + 10)
        => (f_out[i].status = "raised" /\ f_out[i].logits = <<>>)

\* C15 witness: a forward pass on well-shaped features of 80 steps and a
\* decoder input of 31 tokens ended in an error
C15_Witness ==
    /\ f_feat_dim = f_input_dim
    /\ f_seq_len = MAX_STROKE_LEN
    /\ Len(DecInput(1)) = MAX_WORD_LEN + 11
    /\ f_out[1].status = "raised"

\* C16: on the same weights and inputs, with a non-empty stroke,
\* SwipeModelForExport.forward and SwipeTransformer.forward return
\* bit-identical logits.
C16_ExportBitIdentical ==
    \A i \in 1..Len(f_out) :
        (f_stroke_len > 0 /\ f_out[i] # NoResult /\ f_export[i] # NoResult)
        => f_export[i] = f_out[i]

-----------------------------------------------------------------------------
(* Properties of predict over a batch                                      *)

\* C17: when predict has returned for a batch and is then called with the
\* same weights on one item of the batch alone, the candidate list it returns
\* is the list the call on the batch returned for that item.
C17_BatchIndependence ==
    (pc = "done" /\ solo # 0) => all_results[1] = batch_results[solo]

\* the call on the second item alone has returned a list holding a finished
\* beam, and the first item of the batch had another gesture and another list
C17_Witness ==
    /\ pc = "done"
    /\ solo = 2
    /\ all_results[1] # <<>>
    /\ \E i \in 1..Len(all_results[1]) :
          Last(all_results[1][i].tokens) = EOS_TOKEN
    /\ batch_results[1] # batch_results[2]

-----------------------------------------------------------------------------
(* Properties of the webhook test server                                   *)

IsWebhookPath(path) == path[1] = "webhook"

IsErrorPath(path) == Len(path) = 2 /\ path[1] = "error"

\* C19: on /webhook and /webhook/... POST is answered 201, DELETE 204 with an
\* empty body, GET, PUT and PATCH 200; on /error/<code> every method is
\* answered with the status <code> when it is an integer and with 400 when
\* it is not.
C19_StatusCodes ==
    LET method == w_request.method
        path == w_request.path
    IN  w_count > 0 =>
          /\ IsWebhookPath(path) =>
                /\ method = "POST" => w_response.status = 201
                /\ method = "DELETE" =>
                      w_response.status = 204 /\ w_response.body = "empty"
                /\ method \in {"GET", "PUT", "PATCH"} =>
                      w_response.status = 200
          /\ IsErrorPath(path) =>
                w_response.status =
                    IF IntRaises(path[2]) THEN 400 ELSE IntSegments[path[2]]

\* the claim's captured routes: every route other than /health, GET /requests
\* and DELETE /requests
IsCapturedRoute(r) ==
    ~ \/ r.path = <<"health">>
      \/ r.path = <<"requests">> /\ r.method \in {"GET", "DELETE"}

CapturedRoutes(sent) == SelectSeq(sent, IsCapturedRoute)

LastOf(s, n) == SubSeq(s, Len(s) - Min(n, Len(s)) + 1, Len(s))

WithoutBody(requests) ==
    [i \in 1..Len(requests) |->
        [id |-> requests[i].id, method |-> requests[i].method,
         path |-> requests[i].path]]

\* C20: the list GET /requests returns is the last min(n, 100) of the n
\* requests sent to captured routes since the store was cleared, in arrival
\* order; the store never holds more than 100 requests; a handler that stores
\* the request does so before it sends the response.
C20_CaptureLog ==
    /\ Len(w_store) <= STORE_LIMIT
    /\ \A i, j \in 1..Len(w_events) :
          (w_events[i] = "add" /\ w_events[j] = "send") => i < j
    /\ (w_count > 0 /\ Route(w_request.method, w_request.path) = "requests_list")
          => WithoutBody(w_response.requests)
               = LastOf(CapturedRoutes(SubSeq(w_sent, 1, Len(w_sent) - 1)),
                        STORE_LIMIT)

-----------------------------------------------------------------------------
(* Properties of RequestStore under threads                                *)

\* what the store holds when every add since the last clear took effect
Kept == LastOf(t_added, STORE_LIMIT)

\* C21: at most one thread is inside a method at a time; whenever no method
\* is running the list is the last 100 of the requests added since the last
\* clear, in the order of the appends, so no add is lost and the list has at
\* most 100 entries (101 only inside add, between its two statements, where
\* no other thread can look); get_all returns that list and find_by_path
\* its entries with the path.
C21_ThreadSafe ==
    /\ [](/\ \A t1, t2 \in Threads :
                (t_pc[t1] # "idle" /\ t_pc[t2] # "idle") => t1 = t2
          /\ t_lock = 0 => t_requests = Kept
          /\ Len(t_requests) <= STORE_LIMIT + 1)
    /\ [][\A t \in Threads :
            /\ (t_pc[t] = "get_all" /\ t_pc'[t] = "idle") => t_ret'[t] = Kept
            /\ (t_pc[t] = "find_by_path" /\ t_pc'[t] = "idle")
                  => t_ret'[t] = WithPath(Kept, t_arg[t])]_vars

\* a get_all returned the 100 entries left after another thread's add
\* evicted the oldest one
C21_Witness ==
    \E t \in Threads :
        /\ t_pc[t] = "idle"
        /\ Len(t_ret[t]) = STORE_LIMIT
        /\ t_ret[t][STORE_LIMIT].id > 0
        /\ t_ret[t][1].id = -98
        /\ \E j \in 1..STORE_LIMIT : t_ret[t][j].path # t_arg[t]

-----------------------------------------------------------------------------
(* Further properties of predict                                           *)

\* the step of predict that replaces the active set by the best of the pool
PoolStep == pc = "beam" /\ bi > Len(beams) /\ candidates # <<>>

\* C22: the active set never holds more than beam_width beams, and a step
\* that ends with a non-empty pool makes the active set min(beam_width, size
\* of the pool) entries of the pool, none of them with a strictly lower
\* cumulative score than an entry of the pool that was dropped.
C22_TopOfPool ==
    /\ [](pc \in {"beam", "rank", "done"} => Len(beams) <= beam_width)
    /\ [][PoolStep =>
            \E kept \in SUBSET (1..Len(candidates)) :
               /\ Cardinality(kept) = Min(beam_width, Len(candidates))
               /\ Len(beams') = Cardinality(kept)
               /\ \E order \in [1..Len(beams') -> kept] :
                     /\ \A i, j \in 1..Len(beams') : i # j => order[i] # order[j]
                     /\ \A i \in 1..Len(beams') : beams'[i] = candidates[order[i]]
               /\ \A i \in kept, j \in (1..Len(candidates)) \ kept :
                     ~KeyLess(ScoreKey(candidates[i]), ScoreKey(candidates[j]))]_vars

\* after the second step both beams of a width-2 search are kept, they come
\* from different beams of the step before (so the pool held four
\* continuations and two were dropped) and they differ in score
C22_Witness ==
    /\ pc = "beam"
    /\ step = 2
    /\ beam_width = 2
    /\ Len(beams) = 2
    /\ beams[1].tokens[2] # beams[2].tokens[2]
    /\ KeyLess(ScoreKey(beams[2]), ScoreKey(beams[1]))

AllEndInEos == \A i \in 1..Len(beams) : Last(beams[i].tokens) = EOS_TOKEN

\* What predict has left to do, as a number: the items not yet started weigh
\* more than any loop, the steps not yet made more than any pass over the
\* active set.
ItemWeight == (max_len + 1) * (beam_width + 2)

LoopLeft ==
    IF pc = "beam"
    THEN (max_len - step) * (beam_width + 2) + (Len(beams) + 1 - bi) + 1
    ELSE IF pc = "rank" THEN 1 ELSE 0

WorkLeft ==
    IF pc = "call" THEN (batch_size + 1) * ItemWeight
    ELSE (batch_size - b) * ItemWeight + LoopLeft

\* a statement of predict can be executed
CanStep ==
    \/ pc \in {"call", "rank"}
    \/ pc = "beam" /\ bi > Len(beams)
    \/ pc = "beam" /\ bi <= Len(beams) /\ Last(beams[bi].tokens) = EOS_TOKEN
    \/ /\ pc = "beam" /\ bi <= Len(beams)
       /\ ~PosEncRaises(Len(beams[bi].tokens), DecPosLen)
       /\ ~TopKRaises(beam_width)
       /\ \E lp \in DecodeOutputs(traces, memo, b, beams[bi].tokens, mem_nan[b]) :
             TopK(lp, beam_width) # {}

\* C23: the loop of an item makes at most max_len steps; it is left before
\* max_len steps only at a step where every active beam ends in EOS, and at
\* the first such step it is left, with the active set unchanged; the loop
\* is followed by the ranking of the item; predict never stops before it
\* has returned, and every statement it executes lowers the work left, a
\* natural number, so that it returns after finitely many statements.
C23_LoopTerminates ==
    /\ [](step <= max_len /\ WorkLeft >= 0 /\ (pc # "done" => CanStep))
    /\ [][(pc = "beam" /\ pc' = "rank") =>
             \/ step' = max_len
             \/ step' = step /\ AllEndInEos /\ beams' = beams]_vars
    /\ [][(pc = "beam" /\ bi > Len(beams) /\ AllEndInEos) =>
             pc' = "rank" /\ step' = step]_vars
    /\ [][pc = "rank" => Len(all_results') = Len(all_results) + 1]_vars
    /\ [][WorkLeft' < WorkLeft]_vars

\* an item of a two-item batch left its loop before max_len steps and its
\* ranking was produced
C23_Witness ==
    /\ pc = "beam"
    /\ b = 2
    /\ Len(all_results) = 1
    /\ max_len = 3
    /\ Len(all_results[1][1].tokens) = 2
    /\ Last(all_results[1][1].tokens) = EOS_TOKEN

\* C27: predict raises for no beam width and every item it has finished has
\* between 1 and beam_width candidates; a beam never adds more than 29
\* continuations to the pool.
C27_AnyBeamWidth ==
    /\ pc # "raised"
    /\ \A i \in 1..Len(all_results) :
          Len(all_results[i]) >= 1 /\ Len(all_results[i]) <= beam_width
    /\ Len(candidates) <= Len(beams) * Min(beam_width, VOCAB_SIZE)

\* C28: in a search of at most MAX_WORD_LEN + 2 steps every token sequence
\* handed to decode has between 1 and max_len tokens, no more than the
\* positional table of the decoder has rows, so that decode does not raise;
\* the 80 timesteps of a stroke are fewer than the rows of the table of the
\* encoder.
C28_WithinPositionalTables ==
    /\ ~PosEncRaises(MAX_STROKE_LEN, EncPosLen)
    /\ max_len <= MAX_WORD_LEN + 2 =>
          /\ pc # "raised"
          /\ tgt # NoTokens =>
                /\ Len(tgt) >= 1
                /\ Len(tgt) <= max_len
                /\ Len(tgt) <= DecPosLen

\* the search of 22 steps hands a sequence of 22 tokens to decode
C28_Witness ==
    /\ max_len = MAX_WORD_LEN + 2
    /\ pc = "beam"
    /\ Len(tgt) = MAX_WORD_LEN + 2

\* C26: the list of candidates predict returns for an item never holds the
\* same token sequence twice.
C26_NoDuplicateCandidates ==
    \A i \in 1..Len(all_results) :
        \A j, k \in 1..Len(all_results[i]) :
            j # k => all_results[i][j].tokens # all_results[i][k].tokens

\* the sum of the log-probabilities the decoder gave, on the gesture, to
\* each token of the sequence after SOS when it was appended
RECURSIVE SumOfSteps(_, _, _)
SumOfSteps(seen, gesture, tokens) ==
    IF Len(tokens) <= 1 THEN 0
    ELSE LET prefix == SubSeq(tokens, 1, Len(tokens) - 1)
         IN  FAdd(SumOfSteps(seen, gesture, prefix),
                  seen[<<gesture, prefix>>][Last(tokens)])

\* the beams of the item being searched: the active set, the pool and the
\* finished set
BeamsOfItem == beams \o candidates \o finished

\* C29: the cumulative score of every beam of the active set, the pool and
\* the finished set is the sum of the log-probabilities of the tokens
\* appended after SOS (0 for the beam [SOS]; NaN when a term is NaN); it is
\* never positive and never above the score of the beam it extends.
C29_CumulativeScore ==
    pc \in {"beam", "rank", "done"} =>
        \A i \in 1..Len(BeamsOfItem) :
            LET beam == BeamsOfItem[i]
                parent == SubSeq(beam.tokens, 1, Len(beam.tokens) - 1)
            IN  /\ beam.tokens[1] = SOS_TOKEN
                /\ beam.score = SumOfSteps(memo, traces[b], beam.tokens)
                /\ IsNaN(beam.score) \/ beam.score <= 0
                /\ Len(beam.tokens) > 1 =>
                      ~KeyLess(<<SumOfSteps(memo, traces[b], parent), 1>>,
                               <<beam.score, 1>>)

\* an active beam of two appended tokens whose log-probabilities were -1 and
\* -2, and a finished beam
C29_Witness ==
    /\ pc = "beam"
    /\ finished # <<>>
    /\ \E i \in 1..Len(beams) :
          /\ Len(beams[i].tokens) = 3
          /\ beams[i].score = -3

-----------------------------------------------------------------------------
(* Further properties of the feature encoder and of the loader             *)

\* C24: in every encoded trace the rows from stroke_len on are all zero, with
\* and without augmentation; the stroke mask of forward and of predict marks
\* exactly these rows, and the encoder self-attention and the decoder
\* cross-attention get that mask.
C24_PaddingRowsAndMask ==
    Returned =>
        LET mask == StrokeMask(item.stroke_len)
        IN  /\ Len(item.features) = MAX_STROKE_LEN
            /\ mask = PaddingMask(Len(item.features), item.stroke_len)
            /\ \A t \in 1..MAX_STROKE_LEN :
                  /\ t > item.stroke_len => item.features[t] = ZeroRow /\ mask[t]
                  /\ t <= item.stroke_len => ~mask[t]
            /\ SrcKeyPaddingMask(mask) = mask
            /\ MemoryKeyPaddingMask(mask) = mask

\* an augmented trace of two points whose first x was moved, with 78 rows
\* of padding
C24_Witness ==
    /\ Returned
    /\ augment
    /\ item.stroke_len = 2
    /\ item.features[1][1] # InputPoints[1][1]
    /\ item.features[2][3] # InputPoints[2][3]

\* np.clip(dt, 0, 1.0), in milliseconds
ClipToSecond(v) ==
    IF v < 0 THEN 0 ELSE IF v > MS_PER_SECOND THEN MS_PER_SECOND ELSE v

\* the timestamp of a touch point, a missing one counting as 0
TimeOf(pt) == IF pt.t = None THEN 0 ELSE pt.t

\* load_futo_dataset takes the row at the head of the corpus as a sample
Accepts == d_pc = "load" /\ Len(samples') = Len(samples) + 1

\* C25: the trace load_futo_dataset makes of an accepted row has one point
\* per touch point; the dt of the first is 0, every dt is within [0, 1 s],
\* and every later dt is the difference of the two timestamps clipped to
\* [0, 1 s], also when the timestamps decrease or one is missing (a missing
\* timestamp counts as 0).
C25_TimeDeltas ==
    [][Accepts =>
          LET data == Head(rows_left).data
              points == Last(samples').points
          IN  /\ Len(points) = Len(data)
              /\ points[1][3] = 0
              /\ \A i \in 1..Len(points) :
                    points[i][3] >= 0 /\ points[i][3] <= MS_PER_SECOND
              /\ \A i \in 2..Len(points) :
                    points[i][3] =
                        ClipToSecond(TimeOf(data[i]) - TimeOf(data[i - 1]))]_vars

\* a row whose second timestamp is before the first was taken as a sample
C25_Witness ==
    /\ d_pc = "ready"
    /\ skipped = 0
    /\ idx = 0
    /\ Len(samples) = 1
    /\ Len(samples[1].points) = 2
    /\ samples[1].points[1][1] = LAYOUT["Q"][1]
    /\ samples[1].points[2][3] = 0

\* C30: in every encoded trace, with and without augmentation, channels 3 to
\* 28 of every row before stroke_len are key_proximity of the x and y held
\* in channels 0 and 1 of that row.
C30_ProximityOfStoredPoint ==
    Returned =>
        \A t \in 1..item.stroke_len :
            SubSeq(item.features[t], 4, FEAT_DIM) =
                key_proximity(item.features[t][1], item.features[t][2])

\* without augmentation the channels are the proximity of the stored point
C30_Unaugmented == (Returned /\ ~augment) => C30_ProximityOfStoredPoint

====
